---- MODULE Spec2Model ----
(***************************************************************************)
(* Spreadsheet-backed tenant record store: ExcelOperations, ExcelManager,  *)
(* HistoryManager, TenantQueries and the TenantTools layer on top of them. *)
(* The backing file is the pair of sheets (tenants, history); every        *)
(* operation loads the whole file, works on its private copy and saves the *)
(* whole file.                                                             *)
(***************************************************************************)
EXTENDS Integers, Sequences, FiniteSets, TLC

VARIABLES tenants, history, last, procs, nsaves

vars == <<tenants, history, last, procs, nsaves>>

(***************************************************************************)
(* Bounds                                                                  *)
(***************************************************************************)
MaxRows == 2
MaxEnded == 1

(***************************************************************************)
(* Python values.  None, str and date objects are tagged so that a cell or *)
(* an attribute may hold any of them.                                      *)
(***************************************************************************)
None == [k |-> "None"]
Str(s) == [k |-> "str", v |-> s]
Date(n) == [k |-> "date", v |-> n]

\* dates are consecutive days; day 0 is the day before the first day callers use
Days == {1, 2, 3}

\* date.isoformat(): the text of a date
isoformat(d) ==
    CASE d.v = 0 -> Str("2025-06-13")
      [] d.v = 1 -> Str("2025-06-14")
      [] d.v = 2 -> Str("2025-06-15")
      [] d.v = 3 -> Str("2025-06-16")

\* date.fromisoformat(str(s)): the date of a text
fromisoformat(s) ==
    CASE s.v = "2025-06-13" -> Date(0)
      [] s.v = "2025-06-14" -> Date(1)
      [] s.v = "2025-06-15" -> Date(2)
      [] s.v = "2025-06-16" -> Date(3)

\* d - timedelta(days=1)
day_before(d) == Date(d.v - 1)

\* json.dumps / json.loads of a list of member dictionaries
json_dumps(x) == [k |-> "json", v |-> x]
json_loads(s) == s.v

\* Python truthiness of a cell or attribute value
Truthy(x) == x # None /\ x # Str("")

(***************************************************************************)
(* Configuration: the buildings of the site                                *)
(***************************************************************************)
BuildingsConfig ==
    << [number |-> 11, total_apartments |-> 1],
       [number |-> 13, total_apartments |-> 2],
       [number |-> 15, total_apartments |-> 0] >>

get_valid_building_numbers == {BuildingsConfig[i].number : i \in DOMAIN BuildingsConfig}

get_apartment_count(building_number) ==
    IF \E i \in DOMAIN BuildingsConfig : BuildingsConfig[i].number = building_number
    THEN LET i == CHOOSE j \in DOMAIN BuildingsConfig :
                     /\ BuildingsConfig[j].number = building_number
                     /\ \A m \in 1..(j - 1) : BuildingsConfig[m].number # building_number
         IN  BuildingsConfig[i].total_apartments
    ELSE 0

validate_building_number(building_number) ==
    building_number \in get_valid_building_numbers

\* a range check that also turns away the last apartment of the building
validate_apartment_number_below_total(building_number, apartment_number) ==
    /\ validate_building_number(building_number)
    /\ ~(apartment_number < 1 \/ apartment_number >= get_apartment_count(building_number))

validate_apartment_number(building_number, apartment_number) ==
    /\ validate_building_number(building_number)
    /\ ~(apartment_number < 1 \/ apartment_number > get_apartment_count(building_number))

(***************************************************************************)
(* Model objects (pydantic models are plain value records)                 *)
(***************************************************************************)
OwnerInfo(first_name, last_name, phone) ==
    [k |-> "OwnerInfo", first_name |-> first_name, last_name |-> last_name, phone |-> phone]

WhatsAppMember(first_name, last_name, phone) ==
    [first_name |-> first_name, last_name |-> last_name, phone |-> phone]

ParkingAuthorization(first_name, last_name, phone) ==
    [first_name |-> first_name, last_name |-> last_name, phone |-> phone]

PalGateMember(first_name, last_name, phone, vehicle_plate) ==
    [first_name |-> first_name, last_name |-> last_name, phone |-> phone,
     vehicle_plate |-> vehicle_plate]

TenantHistory(b, a, first_name, last_name, phone, move_in_date, move_out_date, was_owner, owner_first_name, owner_last_name, owner_phone) ==
    [building_number |-> b, apartment_number |-> a, first_name |-> first_name,
     last_name |-> last_name, phone |-> phone, move_in_date |-> move_in_date,
     move_out_date |-> move_out_date, was_owner |-> was_owner,
     owner_first_name |-> owner_first_name, owner_last_name |-> owner_last_name,
     owner_phone |-> owner_phone]

\* Tenant.is_active
is_active(tenant) == tenant.move_out_date = None

(***************************************************************************)
(* Sheet rows.  A tenant row has the 18 columns of TENANT_HEADERS, a       *)
(* history row the 11 columns of HISTORY_HEADERS.  Sheet row r + 1 is      *)
(* element r of the sequence (row 1 holds the headers).                    *)
(***************************************************************************)
EmptyRow ==
    [building_number |-> None, apartment_number |-> None, first_name |-> None,
     last_name |-> None, phone |-> None, storage_number |-> None,
     parking_slot_1 |-> None, parking_slot_2 |-> None, is_owner |-> None,
     owner_first_name |-> None, owner_last_name |-> None, owner_phone |-> None,
     whatsapp_members |-> None, parking_authorizations |-> None,
     move_in_date |-> None, move_out_date |-> None, palgate_access |-> None,
     whatsapp_group |-> None]

\* RowMatches without the test of column 16
RowMatches_any_row(row, building, apartment) ==
    /\ row.building_number = building
    /\ row.apartment_number = apartment

\* the active-row test of every scan: identity columns match and column 16 is falsy
RowMatches(row, building, apartment) ==
    /\ row.building_number = building
    /\ row.apartment_number = apartment
    /\ ~Truthy(row.move_out_date)

\* first matching sheet row of "for row in range(2, ws.max_row + 1)", 0 when none
ActiveRow(T, building, apartment) ==
    IF \E i \in 1..Len(T) : RowMatches(T[i], building, apartment)
    THEN CHOOSE i \in 1..Len(T) :
            /\ RowMatches(T[i], building, apartment)
            /\ \A j \in 1..(i - 1) : ~RowMatches(T[j], building, apartment)
    ELSE 0

\* _write_tenant_row raises AttributeError when a date attribute holds no date
WriteRaises(tenant) ==
    \/ tenant.move_in_date.k # "date"
    \/ (Truthy(tenant.move_out_date) /\ tenant.move_out_date.k # "date")

\* ExcelOperations._write_tenant_row: the row after writing tenant over old
write_tenant_row(old, tenant) ==
    [building_number |-> tenant.building_number,
     apartment_number |-> tenant.apartment_number,
     first_name |-> tenant.first_name,
     last_name |-> tenant.last_name,
     phone |-> tenant.phone,
     storage_number |-> tenant.storage_number,
     parking_slot_1 |-> tenant.parking_slot_1,
     parking_slot_2 |-> tenant.parking_slot_2,
     is_owner |-> tenant.is_owner,
     owner_first_name |-> IF tenant.owner_info # None
                          THEN Str(tenant.owner_info.first_name) ELSE old.owner_first_name,
     owner_last_name |-> IF tenant.owner_info # None
                         THEN Str(tenant.owner_info.last_name) ELSE old.owner_last_name,
     owner_phone |-> IF tenant.owner_info # None
                     THEN Str(tenant.owner_info.phone) ELSE old.owner_phone,
     whatsapp_members |-> json_dumps(tenant.whatsapp_members),
     parking_authorizations |-> json_dumps(tenant.parking_authorizations),
     move_in_date |-> isoformat(tenant.move_in_date),
     move_out_date |-> IF Truthy(tenant.move_out_date)
                       THEN isoformat(tenant.move_out_date) ELSE None,
     palgate_access |-> tenant.palgate_access_enabled,
     whatsapp_group |-> tenant.whatsapp_group_enabled]

\* ExcelManager._str_to_date
str_to_date(s) == IF ~Truthy(s) THEN None ELSE fromisoformat(s)

\* "cell or ''" of _row_to_tenant
OrEmpty(cell) == IF Truthy(cell) THEN cell.v ELSE ""

\* _row_to_tenant raises (pydantic) when a renter row lacks an owner column
RowRaises(row) ==
    /\ ~row.is_owner
    /\ \/ OrEmpty(row.owner_first_name) = ""
       \/ OrEmpty(row.owner_last_name) = ""
       \/ OrEmpty(row.owner_phone) = ""

\* ExcelManager._row_to_tenant
row_to_tenant(row) ==
    [building_number |-> row.building_number,
     apartment_number |-> row.apartment_number,
     first_name |-> row.first_name,
     last_name |-> row.last_name,
     phone |-> row.phone,
     storage_number |-> row.storage_number,
     parking_slot_1 |-> row.parking_slot_1,
     parking_slot_2 |-> row.parking_slot_2,
     is_owner |-> row.is_owner,
     owner_info |-> IF ~row.is_owner
                    THEN OwnerInfo(OrEmpty(row.owner_first_name),
                                   OrEmpty(row.owner_last_name),
                                   OrEmpty(row.owner_phone))
                    ELSE None,
     whatsapp_members |-> json_loads(row.whatsapp_members),
     parking_authorizations |-> json_loads(row.parking_authorizations),
     palgate_members |-> << >>,
     move_in_date |-> str_to_date(row.move_in_date),
     move_out_date |-> str_to_date(row.move_out_date),
     palgate_access_enabled |-> row.palgate_access,
     whatsapp_group_enabled |-> row.whatsapp_group]

\* get_tenant that validates the address first, as create_tenant does
get_tenant_validating(T, building, apartment) ==
    LET r == ActiveRow(T, building, apartment) IN
    IF ~validate_apartment_number(building, apartment)
    THEN [res |-> "ValidationError", ret |-> None]
    ELSE IF r = 0 THEN [res |-> "ok", ret |-> None]
    ELSE IF RowRaises(T[r]) THEN [res |-> "PydanticError", ret |-> None]
    ELSE [res |-> "ok", ret |-> row_to_tenant(T[r])]

\* ExcelManager.get_tenant: the parsed active record, None, or a raised error
get_tenant(T, building, apartment) ==
    LET r == ActiveRow(T, building, apartment) IN
    IF r = 0 THEN [res |-> "ok", ret |-> None]
    ELSE IF RowRaises(T[r]) THEN [res |-> "PydanticError", ret |-> None]
    ELSE [res |-> "ok", ret |-> row_to_tenant(T[r])]

\* ExcelOperations._create_history_record
create_history_record(row, move_out) ==
    TenantHistory(row.building_number, row.apartment_number, row.first_name,
                  row.last_name, row.phone, fromisoformat(row.move_in_date), move_out,
                  row.is_owner, row.owner_first_name, row.owner_last_name,
                  row.owner_phone)

\* _write_history_row that writes at max_row instead of max_row + 1
write_history_row_at_max_row(H, h) ==
    LET row == [building_number |-> h.building_number,
                apartment_number |-> h.apartment_number,
                first_name |-> h.first_name,
                last_name |-> h.last_name,
                phone |-> h.phone,
                move_in_date |-> isoformat(h.move_in_date),
                move_out_date |-> isoformat(h.move_out_date),
                was_owner |-> h.was_owner,
                owner_first_name |-> h.owner_first_name,
                owner_last_name |-> h.owner_last_name,
                owner_phone |-> h.owner_phone]
    IN  IF H = << >> THEN <<row>> ELSE [H EXCEPT ![Len(H)] = row]

\* ExcelOperations._write_history_row / HistoryManager._write_history_row
write_history_row(H, h) ==
    Append(H, [building_number |-> h.building_number,
               apartment_number |-> h.apartment_number,
               first_name |-> h.first_name,
               last_name |-> h.last_name,
               phone |-> h.phone,
               move_in_date |-> isoformat(h.move_in_date),
               move_out_date |-> isoformat(h.move_out_date),
               was_owner |-> h.was_owner,
               owner_first_name |-> h.owner_first_name,
               owner_last_name |-> h.owner_last_name,
               owner_phone |-> h.owner_phone])

\* HistoryManager._row_to_history
row_to_history(row) ==
    TenantHistory(row.building_number, row.apartment_number, row.first_name,
                  row.last_name, row.phone, fromisoformat(row.move_in_date),
                  fromisoformat(row.move_out_date), row.was_owner,
                  row.owner_first_name, row.owner_last_name, row.owner_phone)

(***************************************************************************)
(* Record-store operations.  Each takes the sheets as found in the file    *)
(* and returns the outcome: res is "ok" or the exception raised, T and H   *)
(* are the sheets in the file afterwards, ret is the value returned.       *)
(* io is what the file system does: "ok", "load_fail" or "save_fail".      *)
(***************************************************************************)
IO == {"ok", "load_fail", "save_fail"}

Raise(exc, msg, T, H) == [res |-> exc, msg |-> msg, T |-> T, H |-> H, ret |-> None]

Return(value, T, H) == [res |-> "ok", msg |-> "", T |-> T, H |-> H, ret |-> value]

\* _load_workbook / _save_workbook wrap every failure in DatabaseError
LoadFailed(T, H) == Raise("DatabaseError", "Failed to load database", T, H)
SaveFailed(T, H) == Raise("DatabaseError", "Failed to save database", T, H)

\* create_tenant without the scan for an active row
create_tenant_wb_noscan(T, H, tenant) ==
    IF WriteRaises(tenant) THEN Raise("AttributeError", "isoformat", T, H)
    ELSE Return(tenant, Append(T, write_tenant_row(EmptyRow, tenant)), H)

\* create_tenant whose scan looks at the first data row only
create_tenant_wb_first_row_only(T, H, tenant) ==
    IF Len(T) >= 1 /\ RowMatches(T[1], tenant.building_number, tenant.apartment_number)
    THEN Raise("ValidationError", "Active tenant already exists for this apartment", T, H)
    ELSE IF WriteRaises(tenant) THEN Raise("AttributeError", "isoformat", T, H)
    ELSE Return(tenant, Append(T, write_tenant_row(EmptyRow, tenant)), H)

\* what a call that loaded (T, H) holds in its workbook when it reaches the save
create_tenant_wb(T, H, tenant) ==
    IF ActiveRow(T, tenant.building_number, tenant.apartment_number) # 0
    THEN Raise("ValidationError", "Active tenant already exists for this apartment", T, H)
    ELSE IF WriteRaises(tenant) THEN Raise("AttributeError", "isoformat", T, H)
    ELSE Return(tenant, Append(T, write_tenant_row(EmptyRow, tenant)), H)

\* update_tenant whose scan matches on the identity columns alone
update_tenant_wb_any_row(T, H, tenant) ==
    LET hits == {i \in 1..Len(T) : /\ T[i].building_number = tenant.building_number
                                   /\ T[i].apartment_number = tenant.apartment_number}
        r == IF hits = {} THEN 0 ELSE CHOOSE i \in hits : \A j \in hits : i <= j
    IN  IF r = 0 THEN Raise("NotFoundError", "Tenant not found", T, H)
        ELSE IF WriteRaises(tenant) THEN Raise("AttributeError", "isoformat", T, H)
        ELSE Return(tenant, [T EXCEPT ![r] = write_tenant_row(T[r], tenant)], H)

update_tenant_wb(T, H, tenant) ==
    LET r == ActiveRow(T, tenant.building_number, tenant.apartment_number) IN
    IF r = 0 THEN Raise("NotFoundError", "Tenant not found", T, H)
    ELSE IF WriteRaises(tenant) THEN Raise("AttributeError", "isoformat", T, H)
    ELSE Return(tenant, [T EXCEPT ![r] = write_tenant_row(T[r], tenant)], H)

\* end_tenancy that appends the history row and forgets the move-out stamp
end_tenancy_wb_nostamp(T, H, building, apartment, move_out) ==
    LET r == ActiveRow(T, building, apartment) IN
    IF r = 0 THEN Raise("NotFoundError", "Active tenant not found", T, H)
    ELSE Return(create_history_record(T[r], move_out), T,
                write_history_row(H, create_history_record(T[r], move_out)))

end_tenancy_wb(T, H, building, apartment, move_out) ==
    LET r == ActiveRow(T, building, apartment) IN
    IF r = 0 THEN Raise("NotFoundError", "Active tenant not found", T, H)
    ELSE LET stamped == [T EXCEPT ![r].move_out_date = isoformat(move_out)]
             h == create_history_record(stamped[r], move_out)
         IN  Return(h, stamped, write_history_row(H, h))

\* a save that adds the workbook's last tenant row to a file that has grown
save_workbook_merge(T, H, io, wb) ==
    IF io = "save_fail" THEN SaveFailed(T, H)
    ELSE IF Len(wb.T) > 0 /\ Len(T) >= Len(wb.T)
    THEN [wb EXCEPT !.T = T \o <<wb.T[Len(wb.T)]>>]
    ELSE wb

\* a save that does not replace a file holding more rows than the workbook
save_workbook_no_shrink(T, H, io, wb) ==
    IF io = "save_fail" THEN SaveFailed(T, H)
    ELSE IF Len(T) + Len(H) > Len(wb.T) + Len(wb.H)
    THEN [wb EXCEPT !.T = T, !.H = H]
    ELSE wb

\* a save that fails after the tenant sheet has been written
save_workbook_torn(T, H, io, wb) ==
    IF io = "save_fail" THEN SaveFailed(wb.T, H) ELSE wb

\* _save_workbook: wb.save(path) replaces the whole file by the workbook, or
\* raises and leaves the file as it was
save_workbook(T, H, io, wb) ==
    IF io = "save_fail" THEN SaveFailed(T, H) ELSE wb

\* load, work on the private workbook, save: the file changes only by a save
Persist(T, H, io, wb) ==
    IF io = "load_fail" THEN LoadFailed(T, H)
    ELSE IF wb.res # "ok" THEN Raise(wb.res, wb.msg, T, H)
    ELSE save_workbook(T, H, io, wb)

\* create_tenant that checks the building and not the apartment
create_tenant_any_apartment(T, H, tenant, io) ==
    IF ~validate_building_number(tenant.building_number)
    THEN Raise("ValidationError", "Invalid building number", T, H)
    ELSE Persist(T, H, io, create_tenant_wb(T, H, tenant))

\* ExcelOperations.create_tenant
create_tenant(T, H, tenant, io) ==
    IF ~validate_building_number(tenant.building_number)
    THEN Raise("ValidationError", "Invalid building number", T, H)
    ELSE IF ~validate_apartment_number(tenant.building_number, tenant.apartment_number)
    THEN Raise("ValidationError", "Invalid apartment number", T, H)
    ELSE Persist(T, H, io, create_tenant_wb(T, H, tenant))

\* ExcelOperations.update_tenant
update_tenant(T, H, tenant, io) == Persist(T, H, io, update_tenant_wb(T, H, tenant))

\* ExcelOperations.end_tenancy
end_tenancy(T, H, building, apartment, move_out, io) ==
    Persist(T, H, io, end_tenancy_wb(T, H, building, apartment, move_out))

\* ExcelManager.get_tenant as a call on the file
store_get_tenant(T, H, building, apartment, io) ==
    IF io = "load_fail" THEN LoadFailed(T, H)
    ELSE LET found == get_tenant(T, building, apartment) IN
         IF found.res # "ok" THEN Raise(found.res, "row does not parse", T, H)
         ELSE Return(found.ret, T, H)

\* a sort that puts x before the entries of its own key
InsertDesc_before_equal(sorted, x) ==
    LET n == Cardinality({i \in 1..Len(sorted) :
                             sorted[i].move_in_date.v > x.move_in_date.v})
    IN  SubSeq(sorted, 1, n) \o <<x>> \o SubSeq(sorted, n + 1, Len(sorted))

\* sorted(history, key=move_in_date, reverse=True): x goes after every entry
\* whose key is not smaller, so equal keys keep their scan order
InsertDesc(sorted, x) ==
    LET n == Cardinality({i \in 1..Len(sorted) :
                             sorted[i].move_in_date.v >= x.move_in_date.v})
    IN  SubSeq(sorted, 1, n) \o <<x>> \o SubSeq(sorted, n + 1, Len(sorted))

RECURSIVE SortDesc(_)
SortDesc(seq) ==
    IF seq = << >> THEN << >>
    ELSE InsertDesc(SortDesc(SubSeq(seq, 1, Len(seq) - 1)), seq[Len(seq)])

\* the rows selected by the scan of get_apartment_history, parsed, in row order
apartment_history_rows(H, building, apartment) ==
    LET idx == {i \in 1..Len(H) : H[i].building_number = building
                                  /\ H[i].apartment_number = apartment}
        RECURSIVE Scan(_)
        Scan(i) == IF i > Len(H) THEN << >>
                   ELSE IF i \in idx THEN <<row_to_history(H[i])>> \o Scan(i + 1)
                   ELSE Scan(i + 1)
    IN  Scan(1)

\* HistoryManager.get_apartment_history
get_apartment_history(H, building, apartment) ==
    SortDesc(apartment_history_rows(H, building, apartment))

\* the rows selected by the scan of get_building_history, parsed, in row order
building_history_rows(H, building) ==
    LET idx == {i \in 1..Len(H) : H[i].building_number = building}
        RECURSIVE Scan(_)
        Scan(i) == IF i > Len(H) THEN << >>
                   ELSE IF i \in idx THEN <<row_to_history(H[i])>> \o Scan(i + 1)
                   ELSE Scan(i + 1)
    IN  Scan(1)

\* HistoryManager.get_building_history
get_building_history(H, building) == SortDesc(building_history_rows(H, building))

\* HistoryManager.add_history_record: load, append one row, save
add_history_record(T, H, h, io) ==
    IF io = "load_fail" THEN LoadFailed(T, H)
    ELSE save_workbook(T, H, io, Return(h, T, write_history_row(H, h)))

\* DataValidator.validate_dates (no operation of the store or the tools calls it)
validate_dates(move_in, move_out) == ~(Truthy(move_out) /\ move_out.v < move_in.v)

(***************************************************************************)
(* TenantQueries: read-only scans of the tenant sheet                      *)
(***************************************************************************)
\* an int argument that may also be None
OptInt(n) == [k |-> "int", v |-> n]

\* a scan that does not look at the move-out column
all_tenants_rows_any_row(T, building) ==
    SelectSeq(T, LAMBDA row : building = None \/ row.building_number = building.v)

\* the rows the scan of get_all_tenants selects, in row order
all_tenants_rows(T, building) ==
    SelectSeq(T, LAMBDA row : /\ ~Truthy(row.move_out_date)
                              /\ (building = None \/ row.building_number = building.v))

\* TenantQueries.get_all_tenants: every selected row parsed, or the parse error
get_all_tenants(T, building) ==
    LET rows == all_tenants_rows(T, building) IN
    IF \E i \in 1..Len(rows) : RowRaises(rows[i])
    THEN [res |-> "PydanticError", ret |-> << >>]
    ELSE [res |-> "ok", ret |-> [i \in 1..Len(rows) |-> row_to_tenant(rows[i])]]

\* Building.get_building: the first configured building with that number, or None
get_building(number) ==
    IF \E i \in DOMAIN BuildingsConfig : BuildingsConfig[i].number = number
    THEN [number |-> number, total_apartments |-> get_apartment_count(number)]
    ELSE None

\* the rate cut off after the first decimal instead of rounded
round1_floor(occupied, total) == (occupied * 1000) \div total

\* round(occupied / total * 100, 1) in tenths of a percent; a quotient halfway
\* between two tenths goes to the even one
round1(occupied, total) ==
    LET q == (occupied * 1000) \div total
        r == (occupied * 1000) % total
    IN  IF 2 * r < total THEN q
        ELSE IF 2 * r > total THEN q + 1
        ELSE IF q % 2 = 0 THEN q ELSE q + 1

\* the dictionary get_building_occupancy builds; occupancy_rate in tenths
occupancy(building, total, occupied) ==
    [building |-> building,
     total_apartments |-> total,
     occupied |-> occupied,
     vacant |-> total - occupied,
     occupancy_rate |-> IF total > 0 THEN round1(occupied, total) ELSE 0]

\* TenantQueries.get_building_occupancy
get_building_occupancy(T, building) ==
    IF get_building(building) = None
    THEN [res |-> "ok", ret |-> [error |-> "Building not found"]]
    ELSE LET all == get_all_tenants(T, OptInt(building)) IN
         IF all.res # "ok" THEN [res |-> all.res, ret |-> None]
         ELSE [res |-> "ok",
               ret |-> occupancy(building, get_building(building).total_apartments,
                                 Len(all.ret))]

\* TenantQueries.get_all_buildings_occupancy: one dictionary per configured
\* building, in the order of Building.get_all_buildings (by number)
get_all_buildings_occupancy(T) ==
    LET numbers == get_valid_building_numbers
        RECURSIVE Stats(_)
        Stats(done) ==
            IF done = numbers THEN << >>
            ELSE LET b == CHOOSE n \in numbers \ done : \A m \in numbers \ done : n <= m
                 IN  <<get_building_occupancy(T, b)>> \o Stats(done \cup {b})
        all == Stats({})
    IN  IF \E i \in 1..Len(all) : all[i].res # "ok"
        THEN [res |-> "PydanticError", ret |-> << >>]
        ELSE [res |-> "ok", ret |-> [i \in 1..Len(all) |-> all[i].ret]]

\* sum(s[key] for s in stats)
RECURSIVE SumOf(_, _)
SumOf(stats, key) ==
    IF stats = << >> THEN 0 ELSE stats[1][key] + SumOf(Tail(stats), key)

\* TenantResources.get_occupancy_stats
get_occupancy_stats(T) ==
    LET stats == get_all_buildings_occupancy(T) IN
    IF stats.res # "ok" THEN [res |-> stats.res, ret |-> None]
    ELSE LET total_apartments == SumOf(stats.ret, "total_apartments")
             total_occupied == SumOf(stats.ret, "occupied")
         IN  [res |-> "ok",
              ret |-> [buildings |-> stats.ret,
                       total |-> [apartments |-> total_apartments,
                                  occupied |-> total_occupied,
                                  vacant |-> total_apartments - total_occupied,
                                  occupancy_rate |->
                                      IF total_apartments > 0
                                      THEN round1(total_occupied, total_apartments)
                                      ELSE 0]]]

\* "name.lower() in full_name.lower()" for the names of the model
name_in_full_name(name, tenant) ==
    CASE name = "jane" -> tenant.first_name \in {"Jane", "Janet"}
      [] name = "janet" -> tenant.first_name = "Janet"
      [] name = "smith" -> tenant.last_name = "Smith"
      [] OTHER -> FALSE

\* "phone in tenant.phone" for the phone numbers of the model
phone_in_phone(phone, tenant) ==
    CASE phone = "050" -> tenant.phone \in {"0509876543", "0501111111"}
      [] phone = "0509876543" -> tenant.phone = "0509876543"
      [] OTHER -> FALSE

\* TenantQueries.search_tenants: name and phone are None or a text
search_tenants(T, name, phone, building) ==
    LET all == get_all_tenants(T, building) IN
    IF all.res # "ok" THEN all
    ELSE [res |-> "ok",
          ret |-> SelectSeq(all.ret,
                    LAMBDA t : /\ (Truthy(name) => name_in_full_name(name.v, t))
                               /\ (Truthy(phone) => phone_in_phone(phone.v, t)))]

\* a read as a call on the file: load, scan, return; the file is not written
Query(T, H, io, result) ==
    IF io = "load_fail" THEN LoadFailed(T, H)
    ELSE IF result.res # "ok" THEN Raise(result.res, "row does not parse", T, H)
    ELSE Return(result.ret, T, H)

(***************************************************************************)
(* TenantTools: the tool layer over the record store                       *)
(***************************************************************************)
Has(rec, key) == key \in DOMAIN rec

\* params.get(key): None when the key is absent
Get(params, key) == IF Has(params, key) THEN params[key] ELSE None

\* the attributes hasattr() finds on a Tenant that setattr() can assign
TenantFields ==
    {"building_number", "apartment_number", "first_name", "last_name", "phone",
     "storage_number", "parking_slot_1", "parking_slot_2", "is_owner", "owner_info",
     "whatsapp_members", "parking_authorizations", "palgate_members", "move_in_date",
     "move_out_date", "palgate_access_enabled", "whatsapp_group_enabled"}

\* TenantTools.create_tenant: the Tenant built from the arguments
tool_create_is_owner(params) == IF Has(params, "is_owner") THEN params.is_owner ELSE TRUE

tool_create_owner_info(params) ==
    IF ~tool_create_is_owner(params) /\ Truthy(Get(params, "owner_info"))
    THEN params.owner_info ELSE None

tool_create_record(params, today) ==
    [building_number |-> params.building_number,
     apartment_number |-> params.apartment_number,
     first_name |-> params.first_name,
     last_name |-> params.last_name,
     phone |-> params.phone,
     storage_number |-> Get(params, "storage_number"),
     parking_slot_1 |-> Get(params, "parking_slot_1"),
     parking_slot_2 |-> Get(params, "parking_slot_2"),
     is_owner |-> tool_create_is_owner(params),
     owner_info |-> tool_create_owner_info(params),
     whatsapp_members |-> << >>,
     parking_authorizations |-> << >>,
     palgate_members |-> << >>,
     move_in_date |-> today,
     move_out_date |-> None,
     palgate_access_enabled |-> FALSE,
     whatsapp_group_enabled |-> FALSE]

\* Tenant.validate_owner_info, run on the owner_info the tool passes
validate_owner_info(is_owner, v) == ~(~is_owner /\ v = None)

\* TenantTools.create_tenant
tool_create_tenant(T, H, params, today, io) ==
    IF ~validate_owner_info(tool_create_is_owner(params), tool_create_owner_info(params))
    THEN Raise("PydanticError", "Owner info required when tenant is renter", T, H)
    ELSE create_tenant(T, H, tool_create_record(params, today), io)

\* the setattr loop of TenantTools.update_tenant
apply_updates(tenant, updates) ==
    [f \in DOMAIN tenant |->
        IF f \in DOMAIN updates /\ f \in TenantFields THEN updates[f] ELSE tenant[f]]

\* params.get("updates", {}): no update when the key is absent
updates_of(params) == IF Has(params, "updates") THEN params.updates ELSE << >>

\* TenantTools.update_tenant
tool_update_tenant(T, H, params, io) ==
    IF io = "load_fail" THEN LoadFailed(T, H)
    ELSE LET found == get_tenant(T, params.building_number, params.apartment_number) IN
         IF found.res # "ok" THEN Raise(found.res, "row does not parse", T, H)
         ELSE IF found.ret = None THEN Raise("NotFoundError", "Tenant not found", T, H)
         ELSE update_tenant(T, H, apply_updates(found.ret, updates_of(params)), io)

\* TenantTools.end_tenancy
tool_end_tenancy(T, H, params, today, io) ==
    LET move_out == IF Truthy(Get(params, "move_out_date"))
                    THEN fromisoformat(params.move_out_date) ELSE today
    IN  end_tenancy(T, H, params.building_number, params.apartment_number, move_out, io)

\* TenantTools.get_tenant
tool_get_tenant(T, H, params, io) ==
    IF io = "load_fail" THEN LoadFailed(T, H)
    ELSE LET found == get_tenant(T, params.building_number, params.apartment_number) IN
         IF found.res # "ok" THEN Raise(found.res, "row does not parse", T, H)
         ELSE Return([success |-> TRUE, tenant |-> found.ret], T, H)

(***************************************************************************)
(* TenantSDK and the web endpoint POST /api/tenants on top of the tools    *)
(***************************************************************************)
\* TenantSDK.get_tenant: None when the call fails or finds nothing
sdk_get_tenant(T, H, building, apartment, io) ==
    LET out == tool_get_tenant(T, H, [building_number |-> building,
                                      apartment_number |-> apartment], io)
    IN  IF out.res # "ok" THEN None ELSE out.ret.tenant

\* TenantSDK.end_tenancy: every failure of the call becomes a ValidationError
sdk_end_tenancy(T, H, building, apartment, move_out, today, io) ==
    LET out == tool_end_tenancy(T, H, [building_number |-> building,
                                       apartment_number |-> apartment,
                                       move_out_date |-> isoformat(move_out)], today, io)
    IN  IF out.res # "ok" THEN Raise("ValidationError", out.msg, out.T, out.H) ELSE out

\* TenantSDK.create_tenant: every failure of the call becomes a ValidationError
sdk_create_tenant(T, H, params, today, io) ==
    LET out == tool_create_tenant(T, H, params, today, io) IN
    IF out.res # "ok" THEN Raise("ValidationError", out.msg, out.T, out.H) ELSE out

\* the decimal digits
DigitChars == {"0", "1", "2", "3", "4", "5", "6", "7", "8", "9"}

\* the characters of the texts that requests carry; LongName is a text of 51
\* letters
LongName == "L51"

Texts ==
    {"", LongName, "Jane", "Janet", "Smith", "Omer", "Levi",
     "Dana", "Gil", "Noa", "0509876543", "0521234567", "0501111111", "0502222222", "0503333333",
     "J", "D", "R2D2", "Anne-Marie O'Neil",
     "12345", "050 123 4567", "+972-50-1234567", "12345678901234567", "12-345-67", "AB-123", "12-345-678-90"}

CharsTable ==
    [s \in Texts |->
        CASE s = "" -> << >>
        [] s = LongName -> [i \in 1..51 |-> "a"]
        [] s = "Jane" -> <<"J", "a", "n", "e">>
        [] s = "Janet" -> <<"J", "a", "n", "e", "t">>
        [] s = "Smith" -> <<"S", "m", "i", "t", "h">>
        [] s = "Omer" -> <<"O", "m", "e", "r">>
        [] s = "Levi" -> <<"L", "e", "v", "i">>
        [] s = "Dana" -> <<"D", "a", "n", "a">>
        [] s = "Gil" -> <<"G", "i", "l">>
        [] s = "Noa" -> <<"N", "o", "a">>
        [] s = "0509876543" -> <<"0", "5", "0", "9", "8", "7", "6", "5", "4", "3">>
        [] s = "0521234567" -> <<"0", "5", "2", "1", "2", "3", "4", "5", "6", "7">>
        [] s = "0501111111" -> <<"0", "5", "0", "1", "1", "1", "1", "1", "1", "1">>
        [] s = "0502222222" -> <<"0", "5", "0", "2", "2", "2", "2", "2", "2", "2">>
        [] s = "0503333333" -> <<"0", "5", "0", "3", "3", "3", "3", "3", "3", "3">>
        [] s = "J" -> <<"J">>
        [] s = "D" -> <<"D">>
        [] s = "R2D2" -> <<"R", "2", "D", "2">>
        [] s = "Anne-Marie O'Neil" -> <<"A", "n", "n", "e", "-", "M", "a", "r", "i", "e", " ", "O", "'", "N", "e", "i", "l">>
        [] s = "12345" -> <<"1", "2", "3", "4", "5">>
        [] s = "050 123 4567" -> <<"0", "5", "0", " ", "1", "2", "3", " ", "4", "5", "6", "7">>
        [] s = "+972-50-1234567" -> <<"+", "9", "7", "2", "-", "5", "0", "-", "1", "2", "3", "4", "5", "6", "7">>
        [] s = "12345678901234567" -> <<"1", "2", "3", "4", "5", "6", "7", "8", "9", "0", "1", "2", "3", "4", "5", "6", "7">>
        [] s = "12-345-67" -> <<"1", "2", "-", "3", "4", "5", "-", "6", "7">>
        [] s = "AB-123" -> <<"A", "B", "-", "1", "2", "3">>
        [] s = "12-345-678-90" -> <<"1", "2", "-", "3", "4", "5", "-", "6", "7", "8", "-", "9", "0">>]

CharsOf(s) == CharsTable[s]

\* the classes of the patterns: [a-zA-Z\u0590-\u05FF], \s, [0-9]
LetterChars ==
    {"A", "B", "C", "D", "E", "F", "G", "H", "I", "J", "K", "L", "M", "N", "O", "P", "Q", "R", "S", "T", "U", "V", "W", "X", "Y", "Z",
     "a", "b", "c", "d", "e", "f", "g", "h", "i", "j", "k", "l", "m", "n", "o", "p", "q", "r", "s", "t", "u", "v", "w", "x", "y", "z"}

\* re.match(r"^[a-zA-Z\u0590-\u05FF\s\-']+$", name)
NamePatternChars == LetterChars \cup {" ", "-", "'"}

match_name_pattern(chars) ==
    chars # << >> /\ \A i \in 1..Len(chars) : chars[i] \in NamePatternChars

\* re.match(r"^[0-9\-\+]+$", phone)
PhonePatternChars == DigitChars \cup {"-", "+"}

match_phone_pattern(chars) ==
    chars # << >> /\ \A i \in 1..Len(chars) : chars[i] \in PhonePatternChars

\* re.match(r"^[0-9\-]+$", plate)
PlatePatternChars == DigitChars \cup {"-"}

match_plate_pattern(chars) ==
    chars # << >> /\ \A i \in 1..Len(chars) : chars[i] \in PlatePatternChars

\* the defaults of _get_validation_config
name_min_length == 2
name_max_length == 50
web_phone_min_length == 9
web_phone_max_length == 15
max_whatsapp_members == 2
max_palgate_members == 4
plate_max_length == 10

\* _validate_name: the messages for one name
validate_name_errors(name) ==
    LET chars == CharsOf(name) IN
    (IF Len(chars) < name_min_length THEN <<"must be at least 2 characters">> ELSE << >>)
    \o (IF Len(chars) > name_max_length THEN <<"must be at most 50 characters">> ELSE << >>)
    \o (IF ~match_name_pattern(chars)
        THEN <<"Name must contain only letters, spaces, hyphens, and apostrophes">>
        ELSE << >>)

\* _validate_phone: the messages for one phone
validate_phone_errors(phone) ==
    LET chars == CharsOf(phone) IN
    (IF Len(chars) < web_phone_min_length THEN <<"must be at least 9 characters">> ELSE << >>)
    \o (IF Len(chars) > web_phone_max_length THEN <<"must be at most 15 characters">> ELSE << >>)
    \o (IF ~match_phone_pattern(chars)
        THEN <<"Phone must contain only digits, dashes, and plus sign">>
        ELSE << >>)

\* _validate_vehicle_plate: the messages for one plate, none for no plate
validate_vehicle_plate_errors(plate) ==
    IF ~Truthy(plate) THEN << >>
    ELSE LET chars == CharsOf(plate.v) IN
         (IF Len(chars) > plate_max_length
          THEN <<"Vehicle plate must be at most 10 characters">> ELSE << >>)
         \o (IF ~match_plate_pattern(chars)
             THEN <<"Vehicle plate must contain only digits and dashes">> ELSE << >>)

web_validate_name(name) == validate_name_errors(name) = << >>
web_validate_phone(phone) == validate_phone_errors(phone) = << >>

\* FamilyMember of a request
FamilyMember(first_name, last_name, phone, whatsapp_enabled, palgate_enabled, vehicle_plate) ==
    [first_name |-> first_name, last_name |-> last_name, phone |-> phone,
     whatsapp_enabled |-> whatsapp_enabled, palgate_enabled |-> palgate_enabled,
     vehicle_plate |-> vehicle_plate]

\* tenant.family_members, empty when the body has none
family_members_of(req) == IF Has(req, "family_members") THEN req.family_members ELSE << >>

\* the messages for one family member
family_member_errors(member) ==
    validate_name_errors(member.first_name) \o validate_name_errors(member.last_name)
    \o validate_phone_errors(member.phone)
    \o validate_vehicle_plate_errors(member.vehicle_plate)

\* f"family_member_{i}", i counted from 0
family_member_key(i) ==
    <<"family_member_0", "family_member_1", "family_member_2", "family_member_3",
      "family_member_4", "family_member_5">>[i + 1]

\* the keys of a fail-fast validation: only the first field found invalid
web_validate_tenant_data_first_only(req) ==
    IF ~web_validate_name(req.first_name) THEN {"first_name"}
    ELSE IF ~web_validate_name(req.last_name) THEN {"last_name"}
    ELSE IF ~web_validate_phone(req.phone) THEN {"phone"}
    ELSE IF ~req.is_owner /\ ~Truthy(req.owner_info) THEN {"owner_info"}
    ELSE IF ~req.is_owner /\ ~web_validate_name(req.owner_info.first_name)
    THEN {"owner_first_name"}
    ELSE IF ~req.is_owner /\ ~web_validate_name(req.owner_info.last_name)
    THEN {"owner_last_name"}
    ELSE IF ~req.is_owner /\ ~web_validate_phone(req.owner_info.phone)
    THEN {"owner_phone"}
    ELSE LET members == family_members_of(req)
             bad == {i \in 1..Len(members) : family_member_errors(members[i]) # << >>}
         IN  IF Cardinality({i \in 1..Len(members) : members[i].whatsapp_enabled})
                    > max_whatsapp_members
                \/ Cardinality({i \in 1..Len(members) : members[i].palgate_enabled})
                    > max_palgate_members
             THEN {"family_members"}
             ELSE IF bad = {} THEN {}
             ELSE {family_member_key((CHOOSE i \in bad : \A j \in bad : i <= j) - 1)}

\* _validate_tenant_data: the keys of the errors dictionary
web_validate_tenant_data(req) ==
    LET members == family_members_of(req)
        whatsapp_count == Cardinality({i \in 1..Len(members) : members[i].whatsapp_enabled})
        palgate_count == Cardinality({i \in 1..Len(members) : members[i].palgate_enabled})
    IN
    {f \in {"first_name"} : ~web_validate_name(req.first_name)}
    \cup {f \in {"last_name"} : ~web_validate_name(req.last_name)}
    \cup {f \in {"phone"} : ~web_validate_phone(req.phone)}
    \cup (IF req.is_owner THEN {}
          ELSE IF ~Truthy(req.owner_info) THEN {"owner_info"}
          ELSE {f \in {"owner_first_name"} : ~web_validate_name(req.owner_info.first_name)}
               \cup {f \in {"owner_last_name"} : ~web_validate_name(req.owner_info.last_name)}
               \cup {f \in {"owner_phone"} : ~web_validate_phone(req.owner_info.phone)})
    \cup {f \in {"family_members"} : \/ whatsapp_count > max_whatsapp_members
                                     \/ palgate_count > max_palgate_members}
    \cup {family_member_key(i - 1) : i \in {j \in 1..Len(members) :
                                              family_member_errors(members[j]) # << >>}}

\* the arguments the endpoint hands to TenantSDK.create_tenant
web_create_params(req, move_in) ==
    [building_number |-> req.building_number,
     apartment_number |-> req.apartment_number,
     first_name |-> req.first_name,
     last_name |-> req.last_name,
     phone |-> req.phone,
     is_owner |-> req.is_owner,
     move_in_date |-> isoformat(move_in),
     storage_number |-> None,
     parking_slot_1 |-> None,
     parking_slot_2 |-> None,
     owner_info |-> req.owner_info,
     whatsapp_members |-> << >>,
     palgate_members |-> << >>]

\* POST /api/tenants: validate, look the apartment up, end the existing tenancy
\* when asked to replace it, create.  ios are the fates of the three file
\* accesses; out is the outcome, calls the SDK calls issued, in order.
web_create_run(T, H, req, today, ios) ==
    LET move_in == IF Truthy(req.move_in_date) THEN fromisoformat(req.move_in_date)
                   ELSE today
        existing == sdk_get_tenant(T, H, req.building_number, req.apartment_number, ios[1])
        ended == IF existing # None /\ req.replace_existing
                 THEN sdk_end_tenancy(T, H, req.building_number, req.apartment_number,
                                      day_before(move_in), today, ios[2])
                 ELSE Return(None, T, H)
        validation_errors == web_validate_tenant_data(req)
    IN  IF validation_errors # {}
        THEN [out |-> [Raise("validation_errors", "Please fix the validation errors", T, H)
                          EXCEPT !.ret = validation_errors],
              calls |-> << >>]
        ELSE IF existing # None /\ ~req.replace_existing
        THEN [out |-> [Raise("requires_confirmation", "Apartment already occupied", T, H)
                          EXCEPT !.ret = existing],
              calls |-> <<"get_tenant">>]
        ELSE IF ended.res # "ok"
        THEN [out |-> ended, calls |-> <<"get_tenant", "end_tenancy">>]
        ELSE [out |-> sdk_create_tenant(ended.T, ended.H, web_create_params(req, move_in),
                                        today, ios[3]),
              calls |-> IF existing # None
                        THEN <<"get_tenant", "end_tenancy", "create_tenant">>
                        ELSE <<"get_tenant", "create_tenant">>]

\* the response of POST /api/tenants and the file after it
web_create_tenant(T, H, req, today, ios) == web_create_run(T, H, req, today, ios).out

(***************************************************************************)
(* Inputs                                                                  *)
(***************************************************************************)
\* addresses callers use: the two apartments of the site, an apartment beyond
\* the building's last one and a building that is not configured
AddressInputs == { <<11, 1>>, <<13, 1>>, <<11, 2>>, <<99, 1>> }

Owner1 == OwnerInfo("Omer", "Levi", "0521234567")
Member1 == WhatsAppMember("Dana", "Smith", "0501111111")
Auth1 == ParkingAuthorization("Gil", "Smith", "0502222222")
Gate1 == PalGateMember("Noa", "Smith", "0503333333", Str("12-345-67"))

\* a Tenant object as a caller of the record store can hold it
Tenant(b, a, first_name, is_owner, owner_info, family, move_in, move_out) ==
    [building_number |-> b,
     apartment_number |-> a,
     first_name |-> first_name,
     last_name |-> "Smith",
     phone |-> "0509876543",
     storage_number |-> IF family THEN Str("S7") ELSE None,
     parking_slot_1 |-> IF family THEN Str("P1") ELSE None,
     parking_slot_2 |-> None,
     is_owner |-> is_owner,
     owner_info |-> owner_info,
     whatsapp_members |-> IF family THEN <<Member1>> ELSE << >>,
     parking_authorizations |-> IF family THEN <<Auth1>> ELSE << >>,
     palgate_members |-> IF family THEN <<Gate1>> ELSE << >>,
     move_in_date |-> move_in,
     move_out_date |-> move_out,
     palgate_access_enabled |-> family,
     whatsapp_group_enabled |-> family]

\* the tenants callers hand to the record store: first name, is_owner, owner_info,
\* family (members, slots and flags), move-in date, move-out date
Profiles ==
    { <<"Jane", TRUE, None, FALSE, Date(2), None>>,
      <<"Janet", FALSE, Owner1, FALSE, Date(3), None>> }

\* a tenant object whose move_out_date the caller has set
EndedProfiles == { <<"Jane", TRUE, None, FALSE, Date(2), Date(2)>> }

TenantsOf(profiles) ==
    { Tenant(ad[1], ad[2], p[1], p[2], p[3], p[4], p[5], p[6]) :
        ad \in AddressInputs, p \in profiles }

TenantInputs == TenantsOf(Profiles)

UpdateInputs == TenantsOf(Profiles \cup EndedProfiles)

EndDates == {Date(2)}
TodayInputs == {Date(2)}

\* arguments of the create_tenant tool
ToolCreateInputs ==
    { [building_number |-> ad[1], apartment_number |-> ad[2], first_name |-> "Jane",
       last_name |-> "Smith", phone |-> "0509876543"] : ad \in AddressInputs }
    \cup
    { [building_number |-> ad[1], apartment_number |-> ad[2], first_name |-> "Janet",
       last_name |-> "Smith", phone |-> "0509876543", is_owner |-> FALSE,
       owner_info |-> oi] : ad \in AddressInputs, oi \in {None, Owner1} }

\* updates maps of the update_tenant tool
UpdatesInputs ==
    { [is_owner |-> FALSE],
      [move_out_date |-> Date(2)],
      [move_out_date |-> Str("2025-06-15")],
      [building_number |-> 13],
      [nickname |-> "JJ"] }

ToolUpdateInputs ==
    { [building_number |-> ad[1], apartment_number |-> ad[2], updates |-> u] :
        ad \in AddressInputs, u \in UpdatesInputs }

\* arguments of the end_tenancy and get_tenant tools
ToolEndInputs ==
    { [building_number |-> ad[1], apartment_number |-> ad[2]] : ad \in AddressInputs }
    \cup
    { [building_number |-> ad[1], apartment_number |-> ad[2],
       move_out_date |-> isoformat(d)] : ad \in AddressInputs, d \in EndDates }

ToolGetInputs ==
    { [building_number |-> ad[1], apartment_number |-> ad[2]] : ad \in AddressInputs }

\* records handed to add_history_record; the first two share their move-in date
HistoryInputs ==
    { TenantHistory(11, 1, "Avi", "Cohen", "0541111111", Date(1), Date(2), TRUE,
                    None, None, None),
      TenantHistory(11, 1, "Beni", "Cohen", "0542222222", Date(1), Date(3), TRUE,
                    None, None, None),
      TenantHistory(13, 1, "Gal", "Cohen", "0543333333", Date(2), Date(3), FALSE,
                    Str("Omer"), Str("Levi"), Str("0521234567")) }

\* the building argument of the queries
BuildingArgs == {None, OptInt(11), OptInt(13)}

\* name and phone arguments of search_tenants
SearchInputs == { <<None, None>>, <<Str("janet"), None>>, <<Str("jane"), Str("050")>> }

\* family members of a request
Kin(first_name, whatsapp_enabled, palgate_enabled, vehicle_plate) ==
    FamilyMember(first_name, "Smith", "0501111111", whatsapp_enabled, palgate_enabled,
                 vehicle_plate)

\* bodies of POST /api/tenants with invalid fields, for apartment (13, 1)
WebInvalidInputs ==
    { [building_number |-> 13, apartment_number |-> 1, first_name |-> f[1],
       last_name |-> f[2], phone |-> f[3], is_owner |-> f[4], owner_info |-> f[5],
       move_in_date |-> None, replace_existing |-> rep, family_members |-> f[6]] :
        rep \in BOOLEAN,
        f \in { <<"J", "D", "12345", TRUE, None, << >>>>,
                <<"J", "D", "12345", FALSE, OwnerInfo("J", "R2D2", "050 123 4567"), << >>>>,
                <<"Jane", "Smith", "12345678901234567", FALSE, None, << >>>>,
                <<LongName, "Smith", "+972-50-1234567", TRUE, None, << >>>>,
                <<"Jane", "", "0509876543", TRUE, None,
                  <<Kin("Dana", TRUE, FALSE, None), Kin("Gil", TRUE, FALSE, None),
                    Kin("Noa", TRUE, TRUE, Str("12-345-67"))>>>>,
                <<"Jane", "Smith", "0509876543", TRUE, None,
                  <<Kin("Dana", FALSE, TRUE, None), Kin("R2D2", FALSE, TRUE, Str("AB-123")),
                    Kin("Anne-Marie O'Neil", FALSE, TRUE, Str("12-345-678-90")),
                    Kin("Gil", FALSE, TRUE, Str("")), Kin("Noa", FALSE, TRUE, None)>>>> } }

\* bodies of POST /api/tenants
WebCreateInputs ==
    { [building_number |-> ad[1], apartment_number |-> ad[2], first_name |-> "Jane",
       last_name |-> "Smith", phone |-> "0509876543", is_owner |-> TRUE,
       owner_info |-> None, move_in_date |-> mi, replace_existing |-> rep] :
        ad \in {<<11, 1>>, <<13, 1>>}, mi \in {None, Str("2025-06-15")}, rep \in BOOLEAN }
    \cup
    { [building_number |-> 13, apartment_number |-> 1, first_name |-> "Janet",
       last_name |-> "Smith", phone |-> "0509876543", is_owner |-> FALSE,
       owner_info |-> oi, move_in_date |-> None, replace_existing |-> FALSE] :
        oi \in {None, Owner1} }
    \cup WebInvalidInputs

Procs == {1, 2}

\* a request handler: where it is, the call it runs, the workbook it loaded, the
\* number of saves the file had seen when it loaded and when it saved, its outcome
IdleProc == [pc |-> "idle", op |-> "", arg |-> None, T |-> << >>, H |-> << >>,
             at |-> 0, saved |-> 0, res |-> ""]

\* the file system is made to fail on calls addressed to this apartment
FaultyAddress == <<11, 1>>

IOOf(b, a) == IF <<b, a>> = FaultyAddress THEN IO ELSE {"ok"}

(***************************************************************************)
(* The state machine.  tenants and history are the two sheets of the file; *)
(* last is the latest completed call: its name, its outcome and, when it   *)
(* succeeded, the layer it entered at.                                     *)
(***************************************************************************)
Call(op, layer, out) ==
    [op |-> op, layer |-> IF out.res = "ok" THEN layer ELSE "",
     res |-> out.res, msg |-> out.msg]

\* rows of the tenant sheet that carry a move-out date
Ended(T) == Cardinality({i \in 1..Len(T) : Truthy(T[i].move_out_date)})

Complete(op, layer, out) ==
    \E done \in {out} :
        /\ Len(done.T) <= MaxRows
        /\ Ended(done.T) <= MaxEnded
        /\ tenants' = done.T
        /\ history' = done.H
        /\ last' = Call(op, layer, done)
        /\ UNCHANGED <<procs, nsaves>>

Init ==
    /\ tenants = << >>
    /\ history = << >>
    /\ last = [op |-> "init", layer |-> "", res |-> "ok", msg |-> ""]
    /\ procs = [p \in Procs |-> IdleProc]
    /\ nsaves = 0

CreateTenant ==
    \E t \in TenantInputs :
        \E io \in IOOf(t.building_number, t.apartment_number) :
            LET out == create_tenant(tenants, history, t, io) IN
            Complete("create_tenant", "store", out)

UpdateTenant ==
    \E t \in UpdateInputs :
        \E io \in IOOf(t.building_number, t.apartment_number) :
            Complete("update_tenant", "store", update_tenant(tenants, history, t, io))

EndTenancy ==
    \E ad \in AddressInputs, d \in EndDates :
        \E io \in IOOf(ad[1], ad[2]) :
            Complete("end_tenancy", "store",
                     end_tenancy(tenants, history, ad[1], ad[2], d, io))

GetTenant ==
    \E ad \in AddressInputs :
        \E io \in IOOf(ad[1], ad[2]) :
            Complete("get_tenant", "store",
                     store_get_tenant(tenants, history, ad[1], ad[2], io))

ToolCreateTenant ==
    \E params \in ToolCreateInputs, today \in TodayInputs :
        \E io \in IOOf(params.building_number, params.apartment_number) :
            LET out == tool_create_tenant(tenants, history, params, today, io) IN
            Complete("create_tenant", "tool", out)

ToolUpdateTenant ==
    \E params \in ToolUpdateInputs :
        \E io \in IOOf(params.building_number, params.apartment_number) :
            Complete("update_tenant", "tool",
                     tool_update_tenant(tenants, history, params, io))

ToolEndTenancy ==
    \E params \in ToolEndInputs, today \in TodayInputs :
        \E io \in IOOf(params.building_number, params.apartment_number) :
            Complete("end_tenancy", "tool",
                     tool_end_tenancy(tenants, history, params, today, io))

ToolGetTenant ==
    \E params \in ToolGetInputs :
        \E io \in IOOf(params.building_number, params.apartment_number) :
            Complete("get_tenant", "tool", tool_get_tenant(tenants, history, params, io))

Next ==
    \/ CreateTenant
    \/ UpdateTenant
    \/ EndTenancy
    \/ GetTenant
    \/ ToolCreateTenant
    \/ ToolUpdateTenant
    \/ ToolEndTenancy
    \/ ToolGetTenant

Spec == Init /\ [][Next]_vars

(***************************************************************************)
(* The same file under further operations: the archive call                *)
(* add_history_record, the queries and the web endpoint.                   *)
(***************************************************************************)
MaxHistory == 2

AddHistoryRecord ==
    \E h \in HistoryInputs :
        \E io \in IOOf(h.building_number, h.apartment_number) :
            LET out == add_history_record(tenants, history, h, io) IN
            /\ Len(out.H) <= MaxHistory
            /\ Complete("add_history_record", "store", out)

GetAllTenants ==
    \E b \in BuildingArgs, io \in {"ok", "load_fail"} :
        Complete("get_all_tenants", "store",
                 Query(tenants, history, io, get_all_tenants(tenants, b)))

SearchTenants ==
    \E b \in BuildingArgs, np \in SearchInputs :
        Complete("search_tenants", "store",
                 Query(tenants, history, "ok", search_tenants(tenants, np[1], np[2], b)))

GetBuildingOccupancy ==
    \E b \in {11, 13, 15, 99} :
        Complete("get_building_occupancy", "store",
                 Query(tenants, history, "ok", get_building_occupancy(tenants, b)))

GetApartmentHistory ==
    \E ad \in AddressInputs :
        Complete("get_apartment_history", "store",
                 Query(tenants, history, "ok",
                       [res |-> "ok", ret |-> get_apartment_history(history, ad[1], ad[2])]))

GetBuildingHistory ==
    \E b \in {11, 13, 99} :
        Complete("get_building_history", "store",
                 Query(tenants, history, "ok",
                       [res |-> "ok", ret |-> get_building_history(history, b)]))

\* the response of the endpoint: the outcome, the SDK calls issued and the keys
\* of validation_errors
WebCall(run) ==
    [op |-> "create_tenant", layer |-> IF run.out.res = "ok" THEN "web" ELSE "",
     res |-> run.out.res, msg |-> run.out.msg, calls |-> run.calls,
     validation_errors |-> IF run.out.res = "validation_errors" THEN run.out.ret ELSE {}]

WebCreateTenant ==
    \E req \in WebCreateInputs, today \in TodayInputs :
        \E io1 \in IOOf(req.building_number, req.apartment_number) \ {"save_fail"},
           io2, io3 \in IOOf(req.building_number, req.apartment_number) :
            \E run \in {web_create_run(tenants, history, req, today, <<io1, io2, io3>>)} :
            /\ Len(run.out.T) <= MaxRows
            /\ Ended(run.out.T) <= MaxEnded
            /\ tenants' = run.out.T
            /\ history' = run.out.H
            /\ last' = WebCall(run)
            /\ UNCHANGED <<procs, nsaves>>

\* the calls of Next and the web endpoint
NextWeb == Next \/ WebCreateTenant

SpecWeb == Init /\ [][NextWeb]_vars

\* the web endpoint on a file that the record store fills and empties
NextEndpoint == CreateTenant \/ EndTenancy \/ WebCreateTenant

SpecEndpoint == Init /\ [][NextEndpoint]_vars

\* the calls of Next and the queries of the tenant sheet
NextQueries ==
    \/ Next
    \/ GetAllTenants
    \/ SearchTenants
    \/ GetBuildingOccupancy

SpecQueries == Init /\ [][NextQueries]_vars

\* the record store and the archive: every call that can write the history sheet,
\* the calls that feed it, and its reads
NextArchive ==
    \/ CreateTenant
    \/ UpdateTenant
    \/ EndTenancy
    \/ GetTenant
    \/ AddHistoryRecord
    \/ GetApartmentHistory
    \/ GetBuildingHistory

SpecArchive == Init /\ [][NextArchive]_vars

(***************************************************************************)
(* Overlapping requests.  Nothing serialises two handlers: each loads the  *)
(* file into a workbook of its own (Load), then scans, mutates and saves   *)
(* that workbook (Finish).  Each handler runs one write call of the record *)
(* store on a file that earlier calls have left.                           *)
(***************************************************************************)
ValidAddresses == {ad \in AddressInputs : validate_apartment_number(ad[1], ad[2])}

WriteCalls ==
    { [op |-> "create_tenant", tenant |-> t] :
        t \in {x \in TenantInputs :
                 <<x.building_number, x.apartment_number>> \in ValidAddresses} }
    \cup
    { [op |-> "update_tenant", tenant |-> t] :
        t \in {x \in UpdateInputs :
                 <<x.building_number, x.apartment_number>> \in ValidAddresses} }
    \cup
    { [op |-> "end_tenancy", building |-> ad[1], apartment |-> ad[2], move_out |-> d] :
        ad \in ValidAddresses, d \in EndDates }

\* the workbook a call holds when it reaches its save, from the sheets it loaded
WorkbookOf(call, T, H) ==
    CASE call.op = "create_tenant" -> create_tenant_wb(T, H, call.tenant)
      [] call.op = "update_tenant" -> update_tenant_wb(T, H, call.tenant)
      [] call.op = "end_tenancy" ->
            end_tenancy_wb(T, H, call.building, call.apartment, call.move_out)

\* the apartment a call is addressed to
AddressOf(call) ==
    IF call.op = "end_tenancy" THEN <<call.building, call.apartment>>
    ELSE <<call.tenant.building_number, call.tenant.apartment_number>>

\* files that sequential create_tenant calls leave behind
SeedTenants ==
    { Tenant(ad[1], ad[2], "Jane", TRUE, None, FALSE, Date(2), None) : ad \in ValidAddresses }

SeedFiles ==
    { << >> }
    \cup { create_tenant_wb(<< >>, << >>, t).T : t \in SeedTenants }
    \cup { create_tenant_wb(create_tenant_wb(<< >>, << >>, tu[1]).T, << >>, tu[2]).T :
             tu \in {x \in SeedTenants \X SeedTenants : x[1] # x[2]} }

InitConc ==
    /\ tenants \in SeedFiles
    /\ history = << >>
    /\ last = [op |-> "init", layer |-> "", res |-> "ok", msg |-> ""]
    /\ procs = [p \in Procs |-> IdleProc]
    /\ nsaves = 0

\* the handler validates (create_tenant only) and loads the file
Load(p) ==
    /\ procs[p].pc = "idle"
    /\ \E call \in WriteCalls, io \in {"ok", "load_fail"} :
          LET ad == AddressOf(call) IN
          procs' = [procs EXCEPT ![p] =
              IF call.op = "create_tenant" /\ ~validate_apartment_number(ad[1], ad[2])
              THEN [IdleProc EXCEPT !.pc = "done", !.op = call.op, !.arg = call,
                                    !.res = "ValidationError"]
              ELSE IF io = "load_fail"
              THEN [IdleProc EXCEPT !.pc = "done", !.op = call.op, !.arg = call,
                                    !.res = "DatabaseError"]
              ELSE [IdleProc EXCEPT !.pc = "loaded", !.op = call.op, !.arg = call,
                                    !.T = tenants, !.H = history, !.at = nsaves]]
    /\ UNCHANGED <<tenants, history, last, nsaves>>

\* the handler scans and mutates its workbook and saves it over the file
Finish(p) ==
    /\ procs[p].pc = "loaded"
    /\ \E io \in {"ok", "save_fail"} :
          LET wb == WorkbookOf(procs[p].arg, procs[p].T, procs[p].H)
              out == IF wb.res # "ok" THEN Raise(wb.res, wb.msg, tenants, history)
                     ELSE save_workbook(tenants, history, io, wb)
              saved == out.res = "ok"
          IN  /\ tenants' = out.T
              /\ history' = out.H
              /\ nsaves' = IF saved THEN nsaves + 1 ELSE nsaves
              /\ procs' = [procs EXCEPT ![p].pc = "done", ![p].res = out.res,
                                        ![p].saved = IF saved THEN nsaves + 1 ELSE 0]
    /\ UNCHANGED last

NextConc == \E p \in Procs : Load(p) \/ Finish(p)

SpecConc == InitConc /\ [][NextConc]_vars

(***************************************************************************)
(* Properties                                                              *)
(***************************************************************************)
\* a tenant row is active when its move_out_date column is empty
IsActiveRow(row) == row.move_out_date = None

\* the active rows of an apartment in a tenant sheet
ActiveRowsOf(T, b, a) ==
    {i \in 1..Len(T) : T[i].building_number = b /\ T[i].apartment_number = a
                       /\ IsActiveRow(T[i])}

\* the addresses that occur in a tenant sheet
AddressesIn(T) == {<<T[i].building_number, T[i].apartment_number>> : i \in 1..Len(T)}

\* a sequence without its k-th element
RemoveAt(seq, k) == SubSeq(seq, 1, k - 1) \o SubSeq(seq, k + 1, Len(seq))

AllDates == {Date(n) : n \in Days}

\* C1: after any sequence of complete create_tenant / update_tenant / end_tenancy
\* calls, at either layer, every (building_number, apartment_number) has at most
\* one tenant row whose move_out_date is empty.
C1_OneActivePerApartment ==
    \A ad \in AddressesIn(tenants) : Cardinality(ActiveRowsOf(tenants, ad[1], ad[2])) <= 1

\* an apartment was vacated and let again: its ended row and its active row coexist
C1_Witness ==
    /\ last.op = "create_tenant"
    /\ last.res = "ok"
    /\ \E i, j \in 1..Len(tenants) :
          /\ tenants[i].building_number = tenants[j].building_number
          /\ tenants[i].apartment_number = tenants[j].apartment_number
          /\ ~IsActiveRow(tenants[i])
          /\ IsActiveRow(tenants[j])

\* C2: create_tenant for an apartment that has an active row fails with the
\* conflict failure ("Active tenant already exists") and leaves both sheets as
\* they were, whether or not the file could be saved.
C2_ConflictLeavesFile ==
    \A t \in TenantInputs, io \in {"ok", "save_fail"} :
        ActiveRowsOf(tenants, t.building_number, t.apartment_number) # {} =>
            LET out == create_tenant(tenants, history, t, io) IN
            /\ out.res = "ValidationError"
            /\ out.msg = "Active tenant already exists for this apartment"
            /\ out.T = tenants
            /\ out.H = history

\* a create_tenant call has just been refused for an occupied apartment
C2_Witness ==
    /\ last.op = "create_tenant"
    /\ last.res = "ValidationError"
    /\ last.msg = "Active tenant already exists for this apartment"
    /\ \E ad \in AddressesIn(tenants) : ActiveRowsOf(tenants, ad[1], ad[2]) # {}

\* valid tenant records with every combination of owner information and family
RoundTripInputs ==
    { t \in { Tenant(ad[1], ad[2], fn, own, oi, fam, mi, None) :
                ad \in ValidAddresses, fn \in {"Jane", "Janet"}, own \in BOOLEAN,
                oi \in {None, Owner1}, fam \in BOOLEAN, mi \in AllDates } :
        t.is_owner \/ t.owner_info # None }

\* C3: for a vacant apartment of a configured building, create_tenant(t) followed
\* by get_tenant returns a record equal to t in every field.
C3_RoundTrip ==
    \A t \in RoundTripInputs :
        ActiveRowsOf(tenants, t.building_number, t.apartment_number) = {} =>
            LET out == create_tenant(tenants, history, t, "ok")
                got == get_tenant(out.T, t.building_number, t.apartment_number)
            IN  out.res = "ok" /\ got.res = "ok" /\ got.ret = t

\* C4: when (b, a) has an active tenant, end_tenancy(b, a, d) succeeds, get_tenant
\* then finds no record, and get_apartment_history holds exactly one entry more
\* than before, that entry having move_out_date d.
C4_EndTenancyMovesToHistory ==
    \A ad \in AddressInputs, d \in AllDates :
        ActiveRowsOf(tenants, ad[1], ad[2]) # {} =>
            LET out == end_tenancy(tenants, history, ad[1], ad[2], d, "ok")
                before == get_apartment_history(history, ad[1], ad[2])
                after == get_apartment_history(out.H, ad[1], ad[2])
            IN  /\ out.res = "ok"
                /\ get_tenant(out.T, ad[1], ad[2]) = [res |-> "ok", ret |-> None]
                /\ Len(after) = Len(before) + 1
                /\ \E k \in 1..Len(after) :
                      after[k].move_out_date = d /\ RemoveAt(after, k) = before

\* a tenancy has just been ended: the apartment of the newest history row is vacant
C4_Witness ==
    /\ last.op = "end_tenancy"
    /\ last.res = "ok"
    /\ history # << >>
    /\ LET h == history[Len(history)] IN
       ActiveRowsOf(tenants, h.building_number, h.apartment_number) = {}

\* C5: every step that turns an active tenant row into an inactive one is an
\* end_tenancy and appends exactly one history row for the same apartment.
C5_OnlyEndTenancyEnds ==
    [][\A i \in 1..Len(tenants) :
          (IsActiveRow(tenants[i]) /\ ~IsActiveRow(tenants'[i])) =>
              /\ last'.op = "end_tenancy"
              /\ Len(history') = Len(history) + 1
              /\ history'[Len(history')].building_number = tenants[i].building_number
              /\ history'[Len(history')].apartment_number = tenants[i].apartment_number
      ]_vars

\* p and q both succeeded, both loaded the file before either saved, p saved first
Overlapped(p, q) ==
    /\ procs[p].pc = "done" /\ procs[p].res = "ok"
    /\ procs[q].pc = "done" /\ procs[q].res = "ok"
    /\ procs[p].at = procs[q].at
    /\ procs[p].saved < procs[q].saved

\* p and q are create_tenant calls for the same apartment
SameApartmentCreates(p, q) ==
    /\ procs[p].op = "create_tenant"
    /\ procs[q].op = "create_tenant"
    /\ AddressOf(procs[p].arg) = AddressOf(procs[q].arg)

SaveFailureOf(out, T, H) ==
    /\ out.res = "DatabaseError"
    /\ out.msg = "Failed to save database"
    /\ out.T = T
    /\ out.H = H

\* a failed call leaves both sheets as they were
FailureKeepsFile(out, T, H) == out.res # "ok" => (out.T = T /\ out.H = H)

\* the tenant sheet and the history sheet change together or not at all: either
\* both are as before, or one active row got its move-out stamp, every other row
\* is untouched and one history row was appended
BothOrNeither(out, T, H) ==
    \/ (out.T = T /\ out.H = H)
    \/ /\ Len(out.H) = Len(H) + 1
       /\ SubSeq(out.H, 1, Len(H)) = H
       /\ Len(out.T) = Len(T)
       /\ \E i \in 1..Len(T) :
             /\ IsActiveRow(T[i]) /\ ~IsActiveRow(out.T[i])
             /\ \A j \in 1..Len(T) : j # i => out.T[j] = T[j]

ColumnsOf(t) ==
    [building_number |-> t.building_number,
     apartment_number |-> t.apartment_number,
     first_name |-> t.first_name,
     last_name |-> t.last_name,
     phone |-> t.phone,
     storage_number |-> t.storage_number,
     parking_slot_1 |-> t.parking_slot_1,
     parking_slot_2 |-> t.parking_slot_2,
     is_owner |-> t.is_owner,
     owner_first_name |-> IF t.owner_info = None THEN None ELSE Str(t.owner_info.first_name),
     owner_last_name |-> IF t.owner_info = None THEN None ELSE Str(t.owner_info.last_name),
     owner_phone |-> IF t.owner_info = None THEN None ELSE Str(t.owner_info.phone),
     whatsapp_members |-> json_dumps(t.whatsapp_members),
     parking_authorizations |-> json_dumps(t.parking_authorizations),
     move_in_date |-> isoformat(t.move_in_date),
     move_out_date |-> IF t.move_out_date = None THEN None ELSE isoformat(t.move_out_date),
     palgate_access |-> t.palgate_access_enabled,
     whatsapp_group |-> t.whatsapp_group_enabled]

\* C9: update_tenant(t) on an apartment with an active row succeeds and overwrites
\* every column of that row with the field of t (owner columns cleared when t has
\* no owner_info); get_tenant then returns t; no row is added and no other row
\* changes.
C9_UpdateOverwritesAllFields ==
    \A t \in TenantInputs :
        LET act == ActiveRowsOf(tenants, t.building_number, t.apartment_number)
            out == update_tenant(tenants, history, t, "ok")
        IN  act # {} =>
              /\ out.res = "ok"
              /\ Len(out.T) = Len(tenants)
              /\ \A i \in 1..Len(tenants) :
                    out.T[i] = IF i \in act THEN ColumnsOf(t) ELSE tenants[i]
              /\ get_tenant(out.T, t.building_number, t.apartment_number)
                    = [res |-> "ok", ret |-> t]

\* C10: update_tenant and end_tenancy, at the store and at the tool layer,
\* addressed to an apartment without an active row fail with NotFoundError and
\* leave both sheets as they were (given that the file loads).
NotFoundOf(out, T, H) == out.res = "NotFoundError" /\ out.T = T /\ out.H = H

C10_NotFoundLeavesFile ==
    \A ad \in AddressInputs, io \in {"ok", "save_fail"} :
        ActiveRowsOf(tenants, ad[1], ad[2]) = {} =>
            /\ \A t \in UpdateInputs :
                  (t.building_number = ad[1] /\ t.apartment_number = ad[2]) =>
                      NotFoundOf(update_tenant(tenants, history, t, io), tenants, history)
            /\ \A d \in AllDates :
                  NotFoundOf(end_tenancy(tenants, history, ad[1], ad[2], d, io),
                             tenants, history)
            /\ \A params \in ToolUpdateInputs :
                  (params.building_number = ad[1] /\ params.apartment_number = ad[2]) =>
                      NotFoundOf(tool_update_tenant(tenants, history, params, io),
                                 tenants, history)
            /\ \A params \in ToolEndInputs, today \in TodayInputs :
                  (params.building_number = ad[1] /\ params.apartment_number = ad[2]) =>
                      NotFoundOf(tool_end_tenancy(tenants, history, params, today, io),
                                 tenants, history)

\* a call has just been refused for an apartment whose only row is an ended one
C10_Witness ==
    /\ last.op \in {"update_tenant", "end_tenancy"}
    /\ last.res = "NotFoundError"
    /\ \E ad \in AddressesIn(tenants) : ActiveRowsOf(tenants, ad[1], ad[2]) = {}

\* a tenant or history row whose move-out date is earlier than its move-in date
EndsBeforeItStarts(row) ==
    /\ Truthy(row.move_out_date)
    /\ fromisoformat(row.move_out_date).v < fromisoformat(row.move_in_date).v

\* C11: in every reachable state, every tenant row with a move_out_date and every
\* history row has move_out_date >= move_in_date; neither end_tenancy nor the
\* replace flow of the web endpoint persists a row that ends before it starts.
C11_MoveOutNotBeforeMoveIn ==
    /\ \A i \in 1..Len(tenants) : ~EndsBeforeItStarts(tenants[i])
    /\ \A i \in 1..Len(history) : ~EndsBeforeItStarts(history[i])

\* the owner columns of a row hold a name, a surname and a phone number
HasOwnerColumns(row) ==
    /\ Truthy(row.owner_first_name)
    /\ Truthy(row.owner_last_name)
    /\ Truthy(row.owner_phone)

\* C12: in every state reachable through create_tenant and update_tenant, every
\* active row with is_owner false carries the owner's name and phone, so that
\* get_tenant can parse the row of every apartment.
C12_RenterRowsCarryOwner ==
    /\ \A i \in 1..Len(tenants) :
          (IsActiveRow(tenants[i]) /\ ~tenants[i].is_owner) => HasOwnerColumns(tenants[i])
    /\ \A ad \in AddressInputs : get_tenant(tenants, ad[1], ad[2]).res = "ok"

\* a renter record built without owner_info: Tenant(..., is_owner=False) leaves
\* the field at its default, on which pydantic runs no field validator
RenterWithoutOwner(ad) == Tenant(ad[1], ad[2], "Janet", FALSE, None, FALSE, Date(2), None)

\* the same renter as arguments of the tool and as body of the web request
RenterParams(ad, owner_info) ==
    [building_number |-> ad[1], apartment_number |-> ad[2], first_name |-> "Janet",
     last_name |-> "Smith", phone |-> "0509876543", is_owner |-> FALSE,
     owner_info |-> owner_info]

RenterRequest(ad, owner_info) ==
    [building_number |-> ad[1], apartment_number |-> ad[2], first_name |-> "Janet",
     last_name |-> "Smith", phone |-> "0509876543", is_owner |-> FALSE,
     owner_info |-> owner_info, move_in_date |-> None, replace_existing |-> FALSE]

\* a failed call that left both sheets as they were
RefusedWith(out, res, msg) ==
    out.res = res /\ out.msg = msg /\ out.T = tenants /\ out.H = history

\* C13: creating a renter without owner_info for a vacant apartment is refused
\* with an owner-info-required validation failure and leaves the file unchanged,
\* at the record store, at the create_tenant tool and at the web endpoint; with a
\* complete owner_info the same request succeeds.
C13_RenterNeedsOwnerInfo ==
    \A ad \in ValidAddresses, today \in TodayInputs :
        ActiveRowsOf(tenants, ad[1], ad[2]) = {} =>
            /\ create_tenant(tenants, history, RenterWithoutOwner(ad), "ok").res # "ok"
            /\ create_tenant(tenants, history, RenterWithoutOwner(ad), "ok").T = tenants
            /\ RefusedWith(tool_create_tenant(tenants, history, RenterParams(ad, None),
                                              today, "ok"),
                           "PydanticError", "Owner info required when tenant is renter")
            /\ RefusedWith(web_create_tenant(tenants, history, RenterRequest(ad, None),
                                             today, <<"ok", "ok", "ok">>),
                           "validation_errors", "Please fix the validation errors")
            /\ tool_create_tenant(tenants, history, RenterParams(ad, Owner1),
                                  today, "ok").res = "ok"
            /\ web_create_tenant(tenants, history, RenterRequest(ad, Owner1),
                                 today, <<"ok", "ok", "ok">>).res = "ok"

\* addresses of every kind: occupied or vacant apartments, apartment 0, an
\* apartment beyond the last one, a building without apartments, an unknown building
AnyAddress == AddressInputs \cup {<<11, 0>>, <<15, 1>>, <<13, 2>>}

\* C14: get_tenant never fails for a missing record: for every address, also of
\* an unconfigured building or an apartment out of range, with no active row it
\* returns None (the tool: success with tenant null), and no call of it changes
\* the tenant sheet or the history sheet (given that the file loads).
C14_GetTenantNotFoundIsEmpty ==
    \A ad \in AnyAddress :
        /\ ActiveRowsOf(tenants, ad[1], ad[2]) = {} =>
              /\ store_get_tenant(tenants, history, ad[1], ad[2], "ok")
                    = Return(None, tenants, history)
              /\ tool_get_tenant(tenants, history,
                                 [building_number |-> ad[1], apartment_number |-> ad[2]],
                                 "ok")
                    = Return([success |-> TRUE, tenant |-> None], tenants, history)
        /\ \A io \in IO :
              /\ store_get_tenant(tenants, history, ad[1], ad[2], io).T = tenants
              /\ store_get_tenant(tenants, history, ad[1], ad[2], io).H = history

\* get_tenant has just returned while no apartment of the file has an active row
C14_Witness ==
    /\ last.op = "get_tenant"
    /\ last.res = "ok"
    /\ tenants # << >>
    /\ \A i \in 1..Len(tenants) : ~IsActiveRow(tenants[i])

\* the active rows of a sheet, of one building when one is given
ActiveCount(T, building) ==
    Cardinality({i \in 1..Len(T) :
                   IsActiveRow(T[i]) /\ (building = None \/ T[i].building_number = building.v)})

\* no read returns or counts a row that carries a move-out date
ReadsSkipEndedRows ==
    /\ \A ad \in AddressInputs :
          LET got == get_tenant(tenants, ad[1], ad[2]) IN
          (got.res = "ok" /\ got.ret # None) =>
              (got.ret.move_out_date = None /\ ActiveRowsOf(tenants, ad[1], ad[2]) # {})
    /\ \A b \in BuildingArgs :
          LET all == get_all_tenants(tenants, b) IN
          all.res = "ok" =>
              /\ Len(all.ret) = ActiveCount(tenants, b)
              /\ \A k \in 1..Len(all.ret) : all.ret[k].move_out_date = None
              /\ \A np \in SearchInputs :
                    LET found == search_tenants(tenants, np[1], np[2], b) IN
                    /\ Len(found.ret) <= ActiveCount(tenants, b)
                    /\ \A k \in 1..Len(found.ret) : found.ret[k].move_out_date = None
    /\ \A b \in get_valid_building_numbers :
          LET occ == get_building_occupancy(tenants, b) IN
          occ.res = "ok" => occ.ret.occupied = ActiveCount(tenants, OptInt(b))

\* an apartment whose rows all carry a move-out date can be let again
VacatedCanBeLet ==
    \A t \in TenantInputs :
        (/\ <<t.building_number, t.apartment_number>> \in ValidAddresses
         /\ ActiveRowsOf(tenants, t.building_number, t.apartment_number) = {}) =>
            create_tenant(tenants, history, t, "ok").res = "ok"

\* C15: a tenant row that carries a move-out date is never matched again: no
\* later call changes or removes it, get_tenant, get_all_tenants and
\* search_tenants do not return it, get_building_occupancy does not count it, and
\* create_tenant for its apartment succeeds.
C15_EndedRowsAreNeverMatched ==
    /\ [](ReadsSkipEndedRows /\ VacatedCanBeLet)
    /\ [][\A i \in 1..Len(tenants) :
             ~IsActiveRow(tenants[i]) => (i <= Len(tenants') /\ tenants'[i] = tenants[i])
         ]_vars

\* an apartment was vacated by end_tenancy and let again: its history row, its
\* ended row and the new active row coexist
C15_Witness ==
    /\ last.op = "create_tenant"
    /\ last.res = "ok"
    /\ \E i, j \in 1..Len(tenants), h \in 1..Len(history) :
          /\ ~IsActiveRow(tenants[i])
          /\ IsActiveRow(tenants[j])
          /\ i < j
          /\ history[h].building_number = tenants[i].building_number
          /\ history[h].apartment_number = tenants[i].apartment_number
          /\ history[h].move_out_date = tenants[i].move_out_date
          /\ tenants[j].building_number = tenants[i].building_number
          /\ tenants[j].apartment_number = tenants[i].apartment_number

\* sheet H is still there, row for row, at the start of sheet G
KeepsRows(H, G) == Len(G) >= Len(H) /\ SubSeq(G, 1, Len(H)) = H

\* the calls of the tool layer and of the web endpoint keep every history row
ToolsKeepHistory ==
    /\ \A params \in ToolCreateInputs, today \in TodayInputs :
          KeepsRows(history, tool_create_tenant(tenants, history, params, today, "ok").H)
    /\ \A params \in ToolUpdateInputs :
          KeepsRows(history, tool_update_tenant(tenants, history, params, "ok").H)
    /\ \A params \in ToolEndInputs, today \in TodayInputs :
          KeepsRows(history, tool_end_tenancy(tenants, history, params, today, "ok").H)
    /\ \A req \in WebCreateInputs, today \in TodayInputs :
          KeepsRows(history, web_create_tenant(tenants, history, req, today,
                                               <<"ok", "ok", "ok">>).H)

\* C16: the history sheet is append-only: across create_tenant, update_tenant,
\* end_tenancy, add_history_record and the reads, every history row stays at its
\* position with its fields unchanged in every later state.
C16_HistoryIsAppendOnly ==
    /\ []ToolsKeepHistory
    /\ [][KeepsRows(history, history')]_vars

\* end_tenancy has just archived a tenancy behind rows that were there before
C16_Witness ==
    /\ last.op = "end_tenancy"
    /\ last.res = "ok"
    /\ Len(history) >= 2
    /\ \E i \in 1..Len(tenants) :
          /\ tenants[i].move_out_date = history[Len(history)].move_out_date
          /\ tenants[i].first_name = history[Len(history)].first_name

\* building sizes for which the occupancy arithmetic is checked
MaxTotal == 8

\* the number of apartments the configuration gives a building
ConfiguredTotal(b) ==
    LET i == CHOOSE j \in DOMAIN BuildingsConfig :
                 /\ BuildingsConfig[j].number = b
                 /\ \A m \in 1..(j - 1) : BuildingsConfig[m].number # b
    IN  BuildingsConfig[i].total_apartments

\* rate, in tenths of a percent, is occupied / total * 100 rounded to one decimal
IsRoundedRate(rate, occupied, total) ==
    LET diff == rate * total - occupied * 1000 IN
    /\ 2 * diff <= total
    /\ 2 * diff >= -total

\* the figures of an occupancy dictionary are those of occupied out of total
OccupancyFigures(o, occupied, total) ==
    /\ o.total_apartments = total
    /\ o.occupied = occupied
    /\ o.occupied + o.vacant = total
    /\ total > 0 => IsRoundedRate(o.occupancy_rate, occupied, total)
    /\ total = 0 => o.occupancy_rate = 0

\* the dictionary built for occupied out of total, for every size up to MaxTotal
OccupancyArithmetic ==
    \A total \in 0..MaxTotal, occupied \in 0..MaxTotal :
        occupied <= total =>
            OccupancyFigures(occupancy(11, total, occupied), occupied, total)

SortedInputs ==
    HistoryInputs \cup
        { TenantHistory(11, 2, "Dov", "Cohen", "0544444444", Date(3), Date(3), TRUE,
                        None, None, None) }

\* the history sheets that writing up to three of these tenancies gives
HistorySheets ==
    LET one == {write_history_row(<< >>, h) : h \in SortedInputs}
        two == {write_history_row(H, h) : H \in one, h \in SortedInputs}
        three == {write_history_row(H, h) : H \in two, h \in SortedInputs}
    IN  {<< >>} \cup one \cup two \cup three

\* the rows of H for building (and apartment, unless it is None), in row order
HistoryRowsOf(H, building, apartment) ==
    LET Same(row) == /\ row.building_number = building
                     /\ apartment = None \/ row.apartment_number = apartment.v
    IN  SelectSeq(H, Same)

\* out holds the entries of rows, each once: the one at k stands after the
\* entries of a later move_in_date and after the entries of the same
\* move_in_date that precede it in rows
IsStableDescending(out, rows) ==
    /\ Len(out) = Len(rows)
    /\ \A k \in 1..Len(rows) :
          LET day(j) == fromisoformat(rows[j].move_in_date).v
              later == {j \in 1..Len(rows) : day(j) > day(k)}
              sameBefore == {j \in 1..(k - 1) : day(j) = day(k)}
          IN  out[1 + Cardinality(later) + Cardinality(sameBefore)]
                  = row_to_history(rows[k])

\* the two history reads on sheet H, for every building and apartment
HistoryReadsSorted(H) ==
    \A b \in {11, 13, 15, 99} :
        /\ IsStableDescending(get_building_history(H, b), HistoryRowsOf(H, b, None))
        /\ \A a \in 0..2 :
              IsStableDescending(get_apartment_history(H, b, a),
                                 HistoryRowsOf(H, b, OptInt(a)))

\* the reads on each of the sheets of HistorySheets
HistorySheetsSorted == \A H \in HistorySheets : HistoryReadsSorted(H)

\* C18: get_apartment_history(b, a) returns exactly the history rows of
\* (b, a), get_building_history(b) exactly those of b, parsed, by move_in_date
\* descending, entries of equal move_in_date in their row order.
C18_HistoryNewestFirstStable ==
    /\ HistoryReadsSorted(history)
    /\ HistorySheetsSorted

\* a history read on a sheet where apartment (11, 1) has two tenancies of the
\* same move_in_date, entered after a tenancy of building 13
C18_Witness ==
    /\ last.op \in {"get_apartment_history", "get_building_history"}
    /\ last.res = "ok"
    /\ \E i, j \in 1..Len(history) :
          /\ i < j
          /\ history[i].building_number = history[j].building_number
          /\ history[i].apartment_number = history[j].apartment_number
          /\ history[i].move_in_date = history[j].move_in_date
          /\ history[i].first_name # history[j].first_name

\* the building arguments get_all_tenants is checked for
AnyBuildingArg == BuildingArgs \cup {OptInt(15), OptInt(99)}

\* the positions of the rows of T with an empty move_out_date, of one building
\* when one is given
ActivePositions(T, building) ==
    {i \in 1..Len(T) :
        IsActiveRow(T[i]) /\ (building = None \/ T[i].building_number = building.v)}

\* list holds the records of the rows of T at positions, in row order
IsListOfRows(list, T, positions) ==
    /\ Len(list) = Cardinality(positions)
    /\ \A i \in positions :
          list[Cardinality({j \in positions : j <= i})] = row_to_tenant(T[i])

\* get_all_tenants on sheet T returns the active rows in row order, or raises
\* when one of them has no record
ListsActiveRows(T, H) ==
    \A b \in AnyBuildingArg :
        LET got == get_all_tenants(T, b)
            positions == ActivePositions(T, b)
            call == Query(T, H, "ok", got)
        IN  /\ got.res = "ok" <=> \A i \in positions : ~RowRaises(T[i])
            /\ got.res = "ok" => IsListOfRows(got.ret, T, positions)
            /\ call.T = T /\ call.H = H
            /\ get_all_tenants(call.T, b) = got
            /\ Query(T, H, "load_fail", got).T = T
            /\ Query(T, H, "load_fail", got).H = H

CreateAddresses ==
    {<<b, a>> : b \in {11, 13, 15, 99}, a \in 0..3}

\* the building is configured
IsConfigured(b) == \E i \in DOMAIN BuildingsConfig : BuildingsConfig[i].number = b

\* the building is configured and 1 <= apartment <= total_apartments(building)
InConfiguration(ad) ==
    /\ IsConfigured(ad[1])
    /\ 1 <= ad[2]
    /\ ad[2] <= ConfiguredTotal(ad[1])

\* out is the refusal of address ad on sheets T, H
RefusedAddress(out, ad, T, H) ==
    /\ out.res = "ValidationError"
    /\ out.msg = IF IsConfigured(ad[1]) THEN "Invalid apartment number"
                 ELSE "Invalid building number"
    /\ out.T = T
    /\ out.H = H

\* the records and tool arguments of the inputs, taken once each (at one address)
RecordsAt11_1 ==
    {t \in TenantInputs : t.building_number = 11 /\ t.apartment_number = 1}

ArgumentsAt11_1 ==
    {a \in ToolCreateInputs : a.building_number = 11 /\ a.apartment_number = 1}

\* create_tenant of the store and of the tool layer on the current sheets, for
\* every record and address
CreateChecksAddress ==
    \A ad \in CreateAddresses, io \in IO :
        /\ \A t \in RecordsAt11_1 :
              LET tenant == [t EXCEPT !.building_number = ad[1],
                                      !.apartment_number = ad[2]]
                  out == create_tenant(tenants, history, tenant, io)
              IN  /\ ~InConfiguration(ad) => RefusedAddress(out, ad, tenants, history)
                  /\ out.res = "ok" => InConfiguration(ad)
                  /\ (/\ InConfiguration(ad)
                      /\ io = "ok"
                      /\ ~\E i \in 1..Len(tenants) :
                             /\ IsActiveRow(tenants[i])
                             /\ tenants[i].building_number = ad[1]
                             /\ tenants[i].apartment_number = ad[2])
                     => /\ out.res = "ok"
                        /\ Len(out.T) = Len(tenants) + 1
                        /\ out.T[Len(out.T)].building_number = ad[1]
                        /\ out.T[Len(out.T)].apartment_number = ad[2]
        /\ \A params \in ArgumentsAt11_1, today \in TodayInputs :
              LET args == [params EXCEPT !.building_number = ad[1],
                                         !.apartment_number = ad[2]]
                  out == tool_create_tenant(tenants, history, args, today, io)
              IN  /\ out.res = "ok" => InConfiguration(ad)
                  /\ (~InConfiguration(ad) /\ out.res # "PydanticError")
                         => RefusedAddress(out, ad, tenants, history)

\* C20: create_tenant accepts a record only if its building is configured and
\* 1 <= apartment_number <= total_apartments(building); for an unconfigured
\* building, apartment 0 or apartment total + 1 it raises ValidationError with
\* both sheets as they were, whatever the file system does, and the last
\* apartment of a building is accepted when it is vacant.
C20_CreateChecksAddress ==
    /\ []CreateChecksAddress
    /\ [][(/\ last'.op = "create_tenant"
           /\ last'.msg \in {"Invalid building number", "Invalid apartment number"})
          => (tenants' = tenants /\ history' = history)]_vars

\* apartment total + 1 of building 11 was refused while its last apartment is let
C20_Witness ==
    /\ last.op = "create_tenant"
    /\ last.res = "ValidationError"
    /\ last.msg = "Invalid apartment number"
    /\ \E i \in 1..Len(tenants) :
          /\ IsActiveRow(tenants[i])
          /\ tenants[i].building_number = 11
          /\ tenants[i].apartment_number = ConfiguredTotal(11)

(***************************************************************************)
(* DataValidator on texts.  A text is the sequence of its characters.      *)
(***************************************************************************)
\* s.replace(ch, "")
str_replace(s, ch) == SelectSeq(s, LAMBDA c : c # ch)

\* s.isdigit(): at least one character and every character a digit
isdigit(s) == s # << >> /\ \A i \in 1..Len(s) : s[i] \in DigitChars

\* validation.phone_min_length and validation.phone_max_length, not configured
phone_min_length == 9
phone_max_length == 15

\* the outcome of a validator: it returns True or raises ValidationError
Passed == [res |-> "ok", msg |-> "", ret |-> TRUE]
Failed(msg) == [res |-> "ValidationError", msg |-> msg, ret |-> None]

\* a phone check that leaves the plus sign in
validate_phone_number_keep_plus(phone) ==
    LET cleaned == str_replace(str_replace(phone, "-"), " ") IN
    IF ~isdigit(cleaned) THEN Failed("Phone number must contain only digits")
    ELSE IF Len(cleaned) < phone_min_length \/ Len(cleaned) > phone_max_length
    THEN Failed("Phone must be 9-15 digits")
    ELSE Passed

\* DataValidator.validate_phone_number
validate_phone_number(phone) ==
    LET cleaned == str_replace(str_replace(str_replace(phone, "-"), " "), "+") IN
    IF ~isdigit(cleaned) THEN Failed("Phone number must contain only digits")
    ELSE IF Len(cleaned) < phone_min_length \/ Len(cleaned) > phone_max_length
    THEN Failed("Phone must be 9-15 digits")
    ELSE Passed

\* the longest run of digits among the phone inputs
MaxPhoneLen == 16

\* n digits
DigitRun(n) == [i \in 1..n |-> CHOOSE d \in DigitChars : d = ToString(i % 10)]

\* s with character c put in after position pos, or at the end of a shorter s
InsertChar(s, pos, c) ==
    LET at == IF pos <= Len(s) THEN pos ELSE Len(s)
    IN  SubSeq(s, 1, at) \o <<c>> \o SubSeq(s, at + 1, Len(s))

\* characters that are not digits: the three separators, a letter and a dot
OtherChars == {"-", " ", "+", "A", "."}

\* phone texts: runs of digits, bare, with one other character within the first
\* three positions, and with one at the start and one at the end
PhoneInputs ==
    {DigitRun(n) : n \in 0..MaxPhoneLen}
    \cup {InsertChar(DigitRun(n), pos, c) :
            n \in 0..MaxPhoneLen, pos \in 0..2, c \in OtherChars}
    \cup {InsertChar(InsertChar(DigitRun(n), 0, c), n + 1, d) :
            n \in 0..MaxPhoneLen, c \in OtherChars, d \in OtherChars}

\* a text value of a dictionary, and a nested dictionary
Text(chars) == [k |-> "text", v |-> chars]
Dict(d) == [k |-> "dict", v |-> d]

\* s.strip() for the blank of the model
RECURSIVE lstrip(_)
lstrip(s) == IF s # << >> /\ s[1] = " " THEN lstrip(Tail(s)) ELSE s

RECURSIVE rstrip(_)
rstrip(s) ==
    IF s # << >> /\ s[Len(s)] = " " THEN rstrip(SubSeq(s, 1, Len(s) - 1)) ELSE s

strip(s) == rstrip(lstrip(s))

\* data.get(key, default)
GetOr(data, key, default) == IF key \in DOMAIN data THEN data[key] ELSE default

\* Python truthiness of a value of the dictionary
NotEmpty(x) == x # None /\ x # Text(<< >>) /\ x # Dict(<< >>)

\* DataValidator.validate_parking_slots
validate_parking_slots(slot1, slot2) ==
    IF \E slot \in {slot1, slot2} : NotEmpty(slot) /\ strip(slot.v) = << >>
    THEN Failed("Parking slot cannot be empty string")
    ELSE Passed

\* the owner_info branch of validate_tenant_data
owner_info_errors(data) ==
    IF GetOr(data, "is_owner", TRUE) THEN << >>
    ELSE LET owner_info == GetOr(data, "owner_info", Dict(<< >>)) IN
         IF ~NotEmpty(owner_info) THEN <<"Owner info required for renters">>
         ELSE IF ~NotEmpty(GetOr(owner_info.v, "first_name", None))
         THEN <<"Owner first name required">>
         ELSE IF ~NotEmpty(GetOr(owner_info.v, "last_name", None))
         THEN <<"Owner last name required">>
         ELSE << >>

\* DataValidator.validate_tenant_data: (is_valid, errors), or the AttributeError
\* of None.strip() when a name is present but None
validate_tenant_data(data) ==
    LET building == GetOr(data, "building_number", 0)
        apartment == GetOr(data, "apartment_number", 0)
        phone == GetOr(data, "phone", None)
        first_name == GetOr(data, "first_name", Text(<< >>))
        last_name == GetOr(data, "last_name", Text(<< >>))
        building_errors ==
            IF validate_building_number(building) THEN << >>
            ELSE <<"Invalid building number">>
        apartment_errors ==
            IF ~validate_building_number(building) THEN <<"Invalid building number">>
            ELSE IF ~validate_apartment_number(building, apartment)
            THEN <<"Invalid apartment number">>
            ELSE << >>
        phone_errors ==
            IF NotEmpty(phone) /\ validate_phone_number(phone.v).res # "ok"
            THEN <<validate_phone_number(phone.v).msg>>
            ELSE << >>
        first_errors ==
            IF strip(first_name.v) = << >> THEN <<"First name is required">> ELSE << >>
        last_errors ==
            IF strip(last_name.v) = << >> THEN <<"Last name is required">> ELSE << >>
        errors == building_errors \o apartment_errors \o phone_errors \o first_errors
                      \o last_errors \o owner_info_errors(data)
    IN  IF first_name = None \/ last_name = None
        THEN [res |-> "AttributeError", msg |-> "'NoneType' object has no attribute 'strip'",
              ret |-> None]
        ELSE [res |-> "ok", msg |-> "",
              ret |-> [errors |-> errors, is_valid |-> Len(errors) = 0]]

\* the texts of the dictionaries
Chars(n) == [i \in 1..n |-> "x"]
GoodPhone == DigitRun(10)

\* no key at all
NoKey == [key \in {} |-> None]

\* dictionaries handed to validate_tenant_data: each group of keys is right,
\* wrong or left out
DataInputs ==
    { address @@ phone @@ first @@ surname @@ owner @@ dates @@ parking :
        address \in { ("building_number" :> 11) @@ ("apartment_number" :> 1),
                      ("building_number" :> 11) @@ ("apartment_number" :> 2),
                      ("building_number" :> 99) @@ ("apartment_number" :> 1),
                      NoKey },
        phone \in { "phone" :> Text(GoodPhone), "phone" :> Text(DigitRun(3)),
                    "phone" :> Text(<< >>), NoKey },
        first \in { "first_name" :> Text(Chars(4)), "first_name" :> Text(<<" ">>),
                    "first_name" :> None, NoKey },
        surname \in { "last_name" :> Text(Chars(5)), NoKey },
        owner \in { "is_owner" :> TRUE, NoKey, "is_owner" :> FALSE,
                    ("is_owner" :> FALSE) @@ ("owner_info" :> None),
                    ("is_owner" :> FALSE) @@
                        ("owner_info" :> Dict(("first_name" :> Text(Chars(4))) @@
                                              ("last_name" :> Text(Chars(4))))),
                    ("is_owner" :> FALSE) @@
                        ("owner_info" :> Dict("phone" :> Text(GoodPhone))) },
        dates \in { NoKey,
                    ("move_in_date" :> Date(1)) @@ ("move_out_date" :> Date(2)),
                    ("move_in_date" :> Date(2)) @@ ("move_out_date" :> Date(1)) },
        parking \in { NoKey, "parking_slot_1" :> Text(<<"7">>),
                      "parking_slot_1" :> Text(<<" ">>) } }

\* a validator about to be called on an input
Calling(op, input) ==
    [op |-> op, layer |-> "validator", res |-> "calling", msg |-> "", ret |-> None,
     input |-> input]

\* the call returns or raises: nothing is read from or written to the file
Validated(op, out) ==
    /\ last.op = op
    /\ last.res = "calling"
    /\ last' = [op |-> op, layer |-> "validator", res |-> out.res, msg |-> out.msg,
                ret |-> out.ret, input |-> last.input]
    /\ UNCHANGED <<tenants, history, procs, nsaves>>

ValidatePhoneNumber ==
    Validated("validate_phone_number", validate_phone_number(last.input))

ValidateTenantData ==
    Validated("validate_tenant_data", validate_tenant_data(last.input))

\* a validator called on one of the inputs, the file being empty
InitValidator ==
    /\ tenants = << >>
    /\ history = << >>
    /\ last \in {Calling("validate_phone_number", phone) : phone \in PhoneInputs}
                \cup {Calling("validate_tenant_data", data) : data \in DataInputs}
    /\ procs = [p \in Procs |-> IdleProc]
    /\ nsaves = 0

NextValidator == ValidatePhoneNumber \/ ValidateTenantData

SpecValidator == InitValidator /\ [][NextValidator]_vars

\* what is left of a phone text without its separators
Remainder(phone) == SelectSeq(phone, LAMBDA c : c \notin {"-", " ", "+"})

OnlyDigits(r) == \A i \in 1..Len(r) : r[i] \in DigitChars

LengthInRange(r) == phone_min_length <= Len(r) /\ Len(r) <= phone_max_length

\* validate_phone_number succeeds exactly on a remainder of 9 to 15 digits
PhoneAcceptedIffDigitsInRange ==
    (last.op = "validate_phone_number" /\ last.res # "calling") =>
        (last.res = "ok" <=>
            (OnlyDigits(Remainder(last.input)) /\ LengthInRange(Remainder(last.input))))

\* C22 as stated: validate_phone succeeds exactly when the remainder is all
\* digits of a length in [9, 15]; a remainder with a non-digit fails with the
\* non-digit error and an all-digit remainder of wrong length with the length
\* error.
C22_PhoneErrorByRemainder ==
    /\ PhoneAcceptedIffDigitsInRange
    /\ (last.op = "validate_phone_number" /\ last.res # "calling") =>
          LET r == Remainder(last.input) IN
          /\ ~OnlyDigits(r) => last.msg = "Phone number must contain only digits"
          /\ (OnlyDigits(r) /\ ~LengthInRange(r)) => last.msg = "Phone must be 9-15 digits"

\* C22 amended: as stated, except that an empty remainder fails with the
\* non-digit error; the length error is that of a non-empty all-digit
\* remainder of wrong length.
C22_PhoneErrorEmptyIsNonDigit ==
    /\ PhoneAcceptedIffDigitsInRange
    /\ (last.op = "validate_phone_number" /\ last.res # "calling") =>
          LET r == Remainder(last.input) IN
          /\ last.res \in {"ok", "ValidationError"}
          /\ (r = << >> \/ ~OnlyDigits(r))
                 => (last.res # "ok" /\ last.msg = "Phone number must contain only digits")
          /\ (r # << >> /\ OnlyDigits(r) /\ ~LengthInRange(r))
                 => (last.res # "ok" /\ last.msg = "Phone must be 9-15 digits")

\* a phone of separators only was refused
C22_Witness ==
    /\ last.op = "validate_phone_number"
    /\ last.input # << >>
    /\ Remainder(last.input) = << >>
    /\ last.res = "ValidationError"

\* errors holds one of the messages
Reports(errors, messages) == \E i \in 1..Len(errors) : errors[i] \in messages

\* the rules a dictionary breaks, each with the messages that report it
BuildingRule(d) == ~IsConfigured(GetOr(d, "building_number", 0))

ApartmentRule(d) ==
    /\ IsConfigured(GetOr(d, "building_number", 0))
    /\ \/ GetOr(d, "apartment_number", 0) < 1
       \/ GetOr(d, "apartment_number", 0) > ConfiguredTotal(d.building_number)

PhoneMessages ==
    {"Phone number must contain only digits", "Phone must be 9-15 digits",
     "Phone is required"}

PhoneRule(d) ==
    \/ ~NotEmpty(GetOr(d, "phone", None))
    \/ ~(OnlyDigits(Remainder(d.phone.v)) /\ LengthInRange(Remainder(d.phone.v)))

DatesRule(d) ==
    /\ {"move_in_date", "move_out_date"} \subseteq DOMAIN d
    /\ d.move_out_date.v < d.move_in_date.v

ParkingRule(d) ==
    \E key \in {"parking_slot_1", "parking_slot_2"} \cap DOMAIN d :
        d[key] # None /\ d[key].v # << >> /\ \A i \in 1..Len(d[key].v) : d[key].v[i] = " "

IsBlank(x) == x = None \/ \A i \in 1..Len(x.v) : x.v[i] = " "

FirstNameRule(d) == IsBlank(GetOr(d, "first_name", None))

LastNameRule(d) == IsBlank(GetOr(d, "last_name", None))

OwnerMessages ==
    {"Owner info required for renters", "Owner first name required",
     "Owner last name required"}

OwnerRule(d) ==
    /\ ~GetOr(d, "is_owner", TRUE)
    /\ \/ ~NotEmpty(GetOr(d, "owner_info", None))
       \/ ~NotEmpty(GetOr(d.owner_info.v, "first_name", None))
       \/ ~NotEmpty(GetOr(d.owner_info.v, "last_name", None))

\* every broken rule among those validate_tenant_data looks at is reported
CheckedRulesReported(d, errors) ==
    /\ BuildingRule(d) => Reports(errors, {"Invalid building number"})
    /\ ApartmentRule(d) => Reports(errors, {"Invalid apartment number"})
    /\ (NotEmpty(GetOr(d, "phone", None)) /\ PhoneRule(d)) => Reports(errors, PhoneMessages)
    /\ FirstNameRule(d) => Reports(errors, {"First name is required"})
    /\ LastNameRule(d) => Reports(errors, {"Last name is required"})
    /\ OwnerRule(d) => Reports(errors, OwnerMessages)

\* the part of C21 that the code keeps: unless a name is None the call returns,
\* is_valid says whether errors is empty, and the rules on building, apartment,
\* phone format, names and owner info are reported together
ReturnsCheckedRules ==
    (last.op = "validate_tenant_data" /\ last.res # "calling") =>
        /\ last.res = "ok" <=> ~({"first_name", "last_name"} \cap DOMAIN last.input # {}
                                  /\ \E key \in {"first_name", "last_name"} \cap DOMAIN last.input :
                                        last.input[key] = None)
        /\ last.res = "ok" =>
              /\ last.ret.is_valid <=> last.ret.errors = << >>
              /\ CheckedRulesReported(last.input, last.ret.errors)

\* C21: validate_tenant_data never raises; is_valid is true exactly when
\* errors is empty; every broken rule among building, apartment range, phone
\* format, move_out before move_in, blank parking slot, missing required field
\* (phone included) and missing owner info of a renter has its entry in errors.
C21_AllRulesReported ==
    (last.op = "validate_tenant_data" /\ last.res # "calling") =>
        /\ last.res = "ok"
        /\ last.ret.is_valid <=> last.ret.errors = << >>
        /\ CheckedRulesReported(last.input, last.ret.errors)
        /\ PhoneRule(last.input) => Reports(last.ret.errors, PhoneMessages)
        /\ DatesRule(last.input) =>
              Reports(last.ret.errors, {"Move-out date cannot be before move-in date"})
        /\ ParkingRule(last.input) =>
              Reports(last.ret.errors, {"Parking slot cannot be empty string"})

\* a name of 2 to 50 letters, spaces, hyphens and apostrophes
NameIsValid(name) ==
    LET chars == CharsOf(name) IN
    /\ Len(chars) >= 2
    /\ Len(chars) <= 50
    /\ \A i \in 1..Len(chars) :
          chars[i] \in LetterChars \/ chars[i] \in {" ", "-", "'"}

\* a phone of 9 to 15 digits, dashes and plus signs
PhoneIsValid(phone) ==
    LET chars == CharsOf(phone) IN
    /\ Len(chars) >= 9
    /\ Len(chars) <= 15
    /\ \A i \in 1..Len(chars) : chars[i] \in DigitChars \/ chars[i] \in {"-", "+"}

\* no plate, or one of at most 10 digits and dashes
PlateIsValid(plate) ==
    \/ plate = None
    \/ plate = Str("")
    \/ LET chars == CharsOf(plate.v) IN
       /\ Len(chars) <= 10
       /\ \A i \in 1..Len(chars) : chars[i] \in DigitChars \/ chars[i] = "-"

MemberIsValid(m) ==
    /\ NameIsValid(m.first_name)
    /\ NameIsValid(m.last_name)
    /\ PhoneIsValid(m.phone)
    /\ PlateIsValid(m.vehicle_plate)

\* the invalid fields of a request body, by the keys of validation_errors
InvalidFieldsOf(req) ==
    LET members == IF "family_members" \in DOMAIN req THEN req.family_members ELSE << >>
        renter == ~req.is_owner
        given == renter /\ req.owner_info # None
    IN  {key \in {"first_name", "last_name", "phone", "owner_info", "owner_first_name",
                  "owner_last_name", "owner_phone", "family_members"} :
            \/ key = "first_name" /\ ~NameIsValid(req.first_name)
            \/ key = "last_name" /\ ~NameIsValid(req.last_name)
            \/ key = "phone" /\ ~PhoneIsValid(req.phone)
            \/ key = "owner_info" /\ renter /\ req.owner_info = None
            \/ key = "owner_first_name" /\ given /\ ~NameIsValid(req.owner_info.first_name)
            \/ key = "owner_last_name" /\ given /\ ~NameIsValid(req.owner_info.last_name)
            \/ key = "owner_phone" /\ given /\ ~PhoneIsValid(req.owner_info.phone)
            \/ /\ key = "family_members"
               /\ \/ Cardinality({i \in 1..Len(members) : members[i].whatsapp_enabled}) > 2
                  \/ Cardinality({i \in 1..Len(members) : members[i].palgate_enabled}) > 4}
        \cup {family_member_key(i - 1) : i \in {j \in 1..Len(members) :
                                                  ~MemberIsValid(members[j])}}

\* the fates of the file accesses that the responses are checked under
SomeFates == {<<"ok", "ok", "ok">>, <<"load_fail", "load_fail", "load_fail">>,
              <<"ok", "ok", "save_fail">>}

\* on the current file every request with an invalid field is answered with
\* the keys of all its invalid fields, without an SDK call and with the file
\* as it was, and no other request is answered so
InvalidRequestsRefused ==
    \A req \in WebCreateInputs, today \in TodayInputs, ios \in SomeFates :
        LET run == web_create_run(tenants, history, req, today, ios) IN
        /\ run.out.res = "validation_errors" <=> InvalidFieldsOf(req) # {}
        /\ InvalidFieldsOf(req) # {} =>
              /\ run.out.ret = InvalidFieldsOf(req)
              /\ run.calls = << >>
              /\ run.out.T = tenants
              /\ run.out.H = history

\* C23: POST /api/tenants with invalid fields answers success=false with an
\* entry of validation_errors for every invalid field (tenant names and phone,
\* owner names and phone, family-member limits and members) in one response,
\* and issues no get_tenant, end_tenancy or create_tenant call: the file is
\* unchanged.
C23_AllInvalidFieldsInOneResponse ==
    /\ []InvalidRequestsRefused
    /\ [][(last'.op = "create_tenant" /\ last'.res = "validation_errors")
          => (/\ tenants' = tenants
              /\ history' = history
              /\ last'.calls = << >>
              /\ Cardinality(last'.validation_errors) >= 1)]_vars

\* a request with six invalid fields was refused for an occupied apartment
C23_Witness ==
    /\ last.op = "create_tenant"
    /\ last.res = "validation_errors"
    /\ last.validation_errors = {"first_name", "last_name", "phone", "owner_first_name",
                                 "owner_last_name", "owner_phone"}
    /\ \E i \in 1..Len(tenants) :
          /\ IsActiveRow(tenants[i])
          /\ tenants[i].building_number = 13
          /\ tenants[i].apartment_number = 1

\* the valid request bodies of the inputs
ValidRequests == {req \in WebCreateInputs : InvalidFieldsOf(req) = {}}

\* the positions of the active rows of an apartment
ActiveAt(T, b, a) ==
    {i \in 1..Len(T) : /\ IsActiveRow(T[i])
                       /\ T[i].building_number = b
                       /\ T[i].apartment_number = a}

\* the positions of a call in the calls of a request
CallsOf(calls, name) == {i \in 1..Len(calls) : calls[i] = name}

\* the response to req on file T, H, every file access succeeding: asked not to
\* replace, it names the occupant and ends and creates nothing; asked to
\* replace, it ends the tenancy once, and creates only after that
ConfirmsOrReplaces(T, H, req, today) ==
    LET run == web_create_run(T, H, req, today, <<"ok", "ok", "ok">>)
        occupant == T[CHOOSE i \in ActiveAt(T, req.building_number, req.apartment_number) : TRUE]
    IN  /\ ~req.replace_existing =>
              /\ run.out.res = "requires_confirmation"
              /\ run.out.ret # None
              /\ run.out.ret.first_name = occupant.first_name
              /\ run.out.ret.last_name = occupant.last_name
              /\ run.out.ret.phone = occupant.phone
              /\ CallsOf(run.calls, "end_tenancy") = {}
              /\ CallsOf(run.calls, "create_tenant") = {}
              /\ run.out.T = T
              /\ run.out.H = H
        /\ req.replace_existing =>
              /\ Cardinality(CallsOf(run.calls, "end_tenancy")) = 1
              /\ Cardinality(CallsOf(run.calls, "create_tenant")) <= 1
              /\ \A c \in CallsOf(run.calls, "create_tenant"),
                    e \in CallsOf(run.calls, "end_tenancy") : e < c

\* C24: POST /api/tenants for an apartment that has an active tenant: with
\* replace_existing=false it answers requires_confirmation with the occupant's
\* data and calls neither end_tenancy nor create_tenant; with
\* replace_existing=true it calls end_tenancy exactly once and create_tenant
\* only after it.
C24_OccupiedNeedsConfirmation ==
    \A req \in ValidRequests, today \in TodayInputs :
        ActiveAt(tenants, req.building_number, req.apartment_number) # {}
            => ConfirmsOrReplaces(tenants, history, req, today)

\* the same for the apartments whose active row get_tenant can read
ReadableOccupantNeedsConfirmation ==
    \A req \in ValidRequests, today \in TodayInputs :
        (/\ ActiveAt(tenants, req.building_number, req.apartment_number) # {}
         /\ \A i \in ActiveAt(tenants, req.building_number, req.apartment_number) :
               ~RowRaises(tenants[i]))
            => ConfirmsOrReplaces(tenants, history, req, today)

\* C30: whenever POST /api/tenants with replace_existing=true answers
\* success=false, the tenant that was active in the apartment before the
\* request is still its active tenant: no active row is changed by a request
\* that fails.
C30_FailedReplaceKeepsOccupant ==
    [][(/\ last'.op = "create_tenant"
        /\ "calls" \in DOMAIN last'
        /\ last'.res # "ok")
       => \A i \in 1..Len(tenants) :
             IsActiveRow(tenants[i]) => (i <= Len(tenants') /\ tenants'[i] = tenants[i])]_vars


(***************************************************************************)
(* TenantQueries: the WhatsApp contact list and the parking list           *)
(***************************************************************************)
\* Tenant.full_name, and the name a member entry is given
full_name(person) == person.first_name \o " " \o person.last_name

\* the lists of a sequence of lists, one after the other
RECURSIVE extend_all(_)
extend_all(lists) ==
    IF lists = << >> THEN << >> ELSE Head(lists) \o extend_all(Tail(lists))

\* the entries get_whatsapp_contacts appends for one tenant
whatsapp_entries(tenant) ==
    IF tenant.whatsapp_group_enabled
    THEN << [name |-> full_name(tenant), phone |-> tenant.phone,
             building |-> tenant.building_number,
             apartment |-> tenant.apartment_number] >>
         \o [k \in 1..Len(tenant.whatsapp_members) |->
               [name |-> full_name(tenant.whatsapp_members[k]),
                phone |-> tenant.whatsapp_members[k].phone,
                building |-> tenant.building_number,
                apartment |-> tenant.apartment_number]]
    ELSE << >>

\* TenantQueries.get_whatsapp_contacts
get_whatsapp_contacts(T, building) ==
    LET got == get_all_tenants(T, building) IN
    IF got.res # "ok" THEN got
    ELSE [res |-> "ok",
          ret |-> extend_all([i \in 1..Len(got.ret) |-> whatsapp_entries(got.ret[i])])]

\* the entries get_parking_authorizations appends for one tenant, with the
\* slot list given to the entries of the authorized persons
parking_entries_with(tenant, slots) ==
    IF tenant.palgate_access_enabled
    THEN << [name |-> full_name(tenant), phone |-> tenant.phone,
             building |-> tenant.building_number,
             apartment |-> tenant.apartment_number,
             slots |-> <<tenant.parking_slot_1, tenant.parking_slot_2>>] >>
         \o [k \in 1..Len(tenant.parking_authorizations) |->
               [name |-> full_name(tenant.parking_authorizations[k]),
                phone |-> tenant.parking_authorizations[k].phone,
                building |-> tenant.building_number,
                apartment |-> tenant.apartment_number,
                slots |-> slots]]
    ELSE << >>

parking_entries_tenant_slots(tenant) ==
    parking_entries_with(tenant, <<tenant.parking_slot_1, tenant.parking_slot_2>>)

\* the entries get_parking_authorizations appends for one tenant
parking_entries(tenant) ==
    parking_entries_with(tenant, << >>)

\* TenantQueries.get_parking_authorizations
get_parking_authorizations(T, building) ==
    LET got == get_all_tenants(T, building) IN
    IF got.res # "ok" THEN got
    ELSE [res |-> "ok",
          ret |-> extend_all([i \in 1..Len(got.ret) |-> parking_entries(got.ret[i])])]

Member2 == WhatsAppMember("Eli", "Smith", "0504444444")
Auth2 == ParkingAuthorization("Tal", "Levi", "0505555555")

\* tenants with and without the two flags, with no, one and two members
ListedProfiles(b, a) ==
    LET plain == Tenant(b, a, "Jane", TRUE, None, FALSE, Date(2), None)
        family == Tenant(b, a, "Janet", TRUE, None, TRUE, Date(2), None)
    IN  { plain,
          family,
          [family EXCEPT !.whatsapp_group_enabled = FALSE,
                         !.palgate_access_enabled = FALSE],
          [family EXCEPT !.palgate_access_enabled = FALSE,
                         !.whatsapp_members = <<Member1, Member2>>],
          [family EXCEPT !.whatsapp_group_enabled = FALSE,
                         !.parking_slot_2 = Str("P2"),
                         !.parking_authorizations = <<Auth1, Auth2>>],
          [plain EXCEPT !.whatsapp_group_enabled = TRUE,
                        !.palgate_access_enabled = TRUE] }

ListedInputs == UNION { ListedProfiles(ad[1], ad[2]) : ad \in ValidAddresses }

CreateListedTenant ==
    \E t \in ListedInputs :
        Complete("create_tenant", "store", create_tenant(tenants, history, t, "ok"))

GetWhatsappContacts ==
    \E b \in BuildingArgs, io \in {"ok", "load_fail"} :
        Complete("get_whatsapp_contacts", "store",
                 Query(tenants, history, io, get_whatsapp_contacts(tenants, b)))

GetParkingAuthorizations ==
    \E b \in BuildingArgs, io \in {"ok", "load_fail"} :
        Complete("get_parking_authorizations", "store",
                 Query(tenants, history, io, get_parking_authorizations(tenants, b)))

\* the two lists on a file that the record store fills and empties
NextListings ==
    \/ CreateListedTenant
    \/ EndTenancy
    \/ GetWhatsappContacts
    \/ GetParkingAuthorizations

SpecListings == Init /\ [][NextListings]_vars


\* the positions of the active rows of T (of one building when one is given)
\* whose flag column is set
FlaggedPositions(T, building, flag) ==
    {i \in ActivePositions(T, building) : T[i][flag]}

\* the number of entries the rows at positions give: one and one per member
RECURSIVE EntriesOf(_, _, _)
EntriesOf(T, positions, column) ==
    IF positions = {} THEN 0
    ELSE LET i == CHOOSE x \in positions : TRUE IN
         1 + Len(json_loads(T[i][column])) + EntriesOf(T, positions \ {i}, column)

\* list holds, for each row at positions in row order, one primary entry and
\* then one entry per member kept in column; slotted says whether the entries
\* carry slot lists
IsFlatListOf(list, T, positions, column, slotted) ==
    /\ Len(list) = EntriesOf(T, positions, column)
    /\ \A i \in positions :
          LET at == EntriesOf(T, {j \in positions : j < i}, column)
              tenant == row_to_tenant(T[i])
              members == json_loads(T[i][column])
              first == list[at + 1]
          IN  /\ first.name = full_name(tenant)
              /\ first.phone = tenant.phone
              /\ first.building = T[i].building_number
              /\ first.apartment = T[i].apartment_number
              /\ DOMAIN first = {"name", "phone", "building", "apartment"}
                                   \cup (IF slotted THEN {"slots"} ELSE {})
              /\ slotted => first.slots = <<tenant.parking_slot_1, tenant.parking_slot_2>>
              /\ \A k \in 1..Len(members) :
                    LET entry == list[at + 1 + k] IN
                    /\ entry.name = full_name(members[k])
                    /\ entry.phone = members[k].phone
                    /\ entry.building = T[i].building_number
                    /\ entry.apartment = T[i].apartment_number
                    /\ DOMAIN entry = DOMAIN first
                    /\ slotted => entry.slots = << >>

\* both lists of sheet T hold the flagged active rows and nothing else
ListsFlaggedActiveRows(T) ==
    \A b \in AnyBuildingArg :
        LET contacts == get_whatsapp_contacts(T, b)
            parking == get_parking_authorizations(T, b)
            parses == \A i \in ActivePositions(T, b) : ~RowRaises(T[i])
        IN  /\ contacts.res = "ok" <=> parses
            /\ parking.res = "ok" <=> parses
            /\ parses =>
                  /\ IsFlatListOf(contacts.ret, T,
                                  FlaggedPositions(T, b, "whatsapp_group"),
                                  "whatsapp_members", FALSE)
                  /\ IsFlatListOf(parking.ret, T,
                                  FlaggedPositions(T, b, "palgate_access"),
                                  "parking_authorizations", TRUE)

ToolNames == {"create_tenant", "update_tenant", "end_tenancy", "get_tenant"}

\* the tool that invoke_tool runs for a name
dispatch(T, H, name, params, today, io) ==
    IF name = "create_tenant" THEN tool_create_tenant(T, H, params, today, io)
    ELSE IF name = "update_tenant" THEN tool_update_tenant(T, H, params, io)
    ELSE IF name = "end_tenancy" THEN tool_end_tenancy(T, H, params, today, io)
    ELSE IF name = "get_tenant" THEN tool_get_tenant(T, H, params, io)
    ELSE Raise("HTTPException", "Tool not found", T, H)

\* the response of the server to what the dispatch returned or raised: the
\* three handlers of invoke_tool, and the answer the framework gives for an
\* exception that none of them catches
http_response(out) ==
    IF out.res = "ok" THEN [status |-> 200, detail |-> ""]
    ELSE IF out.res = "HTTPException" THEN [status |-> 404, detail |-> out.msg]
    ELSE IF out.res = "ValidationError" THEN [status |-> 400, detail |-> out.msg]
    ELSE IF out.res = "NotFoundError" THEN [status |-> 404, detail |-> out.msg]
    ELSE IF out.res = "DatabaseError" THEN [status |-> 500, detail |-> out.msg]
    ELSE [status |-> 500, detail |-> "Internal Server Error"]

\* invoke_tool
invoke_tool(T, H, name, params, today, io) ==
    LET out == dispatch(T, H, name, params, today, io) IN
    [res |-> out.res, msg |-> out.msg, T |-> out.T, H |-> out.H, ret |-> out.ret,
     response |-> http_response(out)]

\* requests to POST /tools/invoke: the four tools with their arguments, and
\* names the server does not know
ToolRequests ==
    {[name |-> "create_tenant", arguments |-> params] : params \in ToolCreateInputs}
    \cup {[name |-> "update_tenant", arguments |-> params] : params \in ToolUpdateInputs}
    \cup {[name |-> "end_tenancy", arguments |-> params] : params \in ToolEndInputs}
    \cup {[name |-> "get_tenant", arguments |-> params] : params \in ToolGetInputs}
    \cup {[name |-> name, arguments |-> params] :
            name \in {"delete_tenant", "list_tenants"}, params \in ToolGetInputs}

\* the latest call, with the name asked for and the response sent
Served(request, out) ==
    [op |-> request.name, layer |-> IF out.res = "ok" THEN "tool" ELSE "",
     res |-> out.res, msg |-> out.msg, response |-> out.response]

InvokeTool ==
    \E request \in ToolRequests, today \in TodayInputs :
        \E io \in IOOf(request.arguments.building_number,
                       request.arguments.apartment_number) :
            \E out \in {invoke_tool(tenants, history, request.name, request.arguments,
                                    today, io)} :
                /\ Len(out.T) <= MaxRows
                /\ Ended(out.T) <= MaxEnded
                /\ tenants' = out.T
                /\ history' = out.H
                /\ last' = Served(request, out)
                /\ UNCHANGED <<procs, nsaves>>

NextServer == InvokeTool

SpecServer == Init /\ [][NextServer]_vars

\* the latest call came through POST /tools/invoke
WasServed == "response" \in DOMAIN last

\* a name outside the four tools gets 404 (holds)
UnknownToolIs404 ==
    (WasServed /\ last.op \notin ToolNames) => last.response.status = 404

\* a request for a name outside the four tools leaves both sheets as they are
\* (holds)
UnknownToolLeavesStore ==
    [][("response" \in DOMAIN last' /\ last'.op \notin ToolNames)
          => (tenants' = tenants /\ history' = history)]_vars

\* a failure of one of the four tools is answered 400 for a validation error or
\* conflict, 404 for not found, 500 with the storage error's text for a storage
\* failure
IsTypedFailure(call) ==
    \/ call.res = "ValidationError" /\ call.response.status = 400
    \/ call.res = "NotFoundError" /\ call.response.status = 404
    \/ call.res = "DatabaseError" /\ call.response.status = 500
                                  /\ call.response.detail # "Internal Server Error"

\* C26: the server dispatches on the four names create_tenant, update_tenant,
\* end_tenancy, get_tenant; any other name is answered 404; every failure of
\* one of the four tools is answered as a typed failure (400, 404 or 500 for a
\* storage failure), never as an untyped internal error.
C26_EveryFailureTyped ==
    WasServed =>
        /\ last.op \notin ToolNames => last.response.status = 404
        /\ (last.op \in ToolNames /\ last.res # "ok") => IsTypedFailure(last)


(***************************************************************************)
(* TenantSDK.update_tenant, as PATCH and PUT /api/tenants/{b}/{a} call it  *)
(***************************************************************************)
\* the arguments with the updates under the key "updates"
sdk_update_params_nested(building, apartment, updates) ==
    [building_number |-> building, apartment_number |-> apartment, updates |-> updates]

\* the arguments TenantSDK.update_tenant sends: the address and, beside it,
\* the keyword arguments (a keyword of the same name replaces the address key)
sdk_update_params(building, apartment, updates) ==
    updates @@ [building_number |-> building, apartment_number |-> apartment]

\* TenantSDK.update_tenant: every failure of the call becomes a ValidationError
sdk_update_tenant(T, H, building, apartment, updates, io) ==
    LET out == tool_update_tenant(T, H, sdk_update_params(building, apartment, updates), io)
    IN  IF out.res # "ok" THEN Raise("ValidationError", out.msg, out.T, out.H) ELSE out

\* keyword arguments of TenantSDK.update_tenant
SdkUpdates ==
    { [first_name |-> "Janet"],
      [phone |-> "0521234567"],
      [storage_number |-> Str("S9")],
      [first_name |-> "Janet", phone |-> "0521234567"] }

\* the latest SDK call, with the arguments it sent to the tool
SdkCall(op, building, apartment, updates, out) ==
    [op |-> op, layer |-> IF out.res = "ok" THEN "sdk" ELSE "",
     res |-> out.res, msg |-> out.msg,
     building |-> building, apartment |-> apartment, updates |-> updates,
     sent |-> sdk_update_params(building, apartment, updates)]

SdkUpdateTenant ==
    \E ad \in AddressInputs, updates \in SdkUpdates :
        \E io \in IOOf(ad[1], ad[2]) :
            \E out \in {sdk_update_tenant(tenants, history, ad[1], ad[2], updates, io)} :
                /\ Len(out.T) <= MaxRows
                /\ Ended(out.T) <= MaxEnded
                /\ tenants' = out.T
                /\ history' = out.H
                /\ last' = SdkCall("update_tenant", ad[1], ad[2], updates, out)
                /\ UNCHANGED <<procs, nsaves>>

\* SDK updates on a file that the record store fills and empties
NextSdk == CreateTenant \/ EndTenancy \/ SdkUpdateTenant

SpecSdk == Init /\ [][NextSdk]_vars

\* the latest call is a successful TenantSDK.update_tenant
SdkUpdated == "sent" \in DOMAIN last /\ last.res = "ok"

\* a successful SDK update leaves the record that get_tenant reads as it was
\* rewritten from the row, whatever the keyword arguments (holds)
SdkUpdateChangesNothing ==
    [][("sent" \in DOMAIN last' /\ last'.res = "ok") =>
          get_tenant(tenants', last'.building, last'.apartment)
            = get_tenant(tenants, last'.building, last'.apartment)]_vars

\* C27: when TenantSDK.update_tenant(b, a, field=v) returns successfully, the
\* tool was sent {building_number, apartment_number, updates: {field: v}} and
\* get_tenant(b, a) afterwards returns a record with field = v.
C27_SdkUpdateReachesStore ==
    SdkUpdated =>
        /\ last.sent = sdk_update_params_nested(last.building, last.apartment, last.updates)
        /\ LET got == get_tenant(tenants, last.building, last.apartment) IN
           /\ got.res = "ok"
           /\ got.ret # None
           /\ \A field \in DOMAIN last.updates : got.ret[field] = last.updates[field]


\* the update_tenant tool with arguments params leaves every row of T but the
\* active row of the apartment it names as it is
UpdateKeepsOtherRows(T, H, params) ==
    LET out == tool_update_tenant(T, H, params, "ok")
        r == ActiveRow(T, params.building_number, params.apartment_number)
    IN  /\ Len(out.T) = Len(T)
        /\ \A i \in 1..Len(T) : i # r => out.T[i] = T[i]

\* the update_tenant tool leaves the address columns of every row as they are
\* (holds)
UpdateKeepsAddresses(T, H, params) ==
    LET out == tool_update_tenant(T, H, params, "ok") IN
    /\ Len(out.T) = Len(T)
    /\ \A i \in 1..Len(T) :
          /\ out.T[i].building_number = T[i].building_number
          /\ out.T[i].apartment_number = T[i].apartment_number

ToolUpdateKeepsAddresses ==
    \A params \in ToolUpdateInputs : UpdateKeepsAddresses(tenants, history, params)

\* C28: the update_tenant tool applied to (b, a) with any updates map changes
\* no tenant row other than the active row that (b, a) had when the call
\* started, and never changes that row's building_number or apartment_number.
C28_ToolUpdateFrame ==
    \A params \in ToolUpdateInputs :
        /\ UpdateKeepsOtherRows(tenants, history, params)
        /\ UpdateKeepsAddresses(tenants, history, params)


\* the positions of the active rows of building b
ActiveIn(T, b) == {i \in 1..Len(T) : IsActiveRow(T[i]) /\ T[i].building_number = b}

\* the active rows of every configured building are no more than its
\* apartments and lie at its apartments
WithinCapacity(T) ==
    \A b \in get_valid_building_numbers :
        /\ Cardinality(ActiveIn(T, b)) <= get_apartment_count(b)
        /\ \A i \in ActiveIn(T, b) : T[i].apartment_number \in 1..get_apartment_count(b)

\* what get_building_occupancy reports for every configured building is
\* within bounds (occupancy_rate is in tenths of a percent)
ReportsWithinBounds(T) ==
    \A b \in get_valid_building_numbers :
        LET got == get_building_occupancy(T, b) IN
        got.res = "ok" =>
            /\ got.ret.occupied \in 0..got.ret.total_apartments
            /\ got.ret.vacant >= 0
            /\ got.ret.occupancy_rate \in 0..1000

\* C29: in every state that complete, non-overlapping calls reach, every
\* configured building b has at most total_apartments(b) active rows, each at
\* an apartment in 1..total_apartments(b), and get_building_occupancy reports
\* no negative vacant count and no rate above 100.
C29_OccupancyWithinCapacity ==
    /\ WithinCapacity(tenants)
    /\ ReportsWithinBounds(tenants)

\* get_building_occupancy returned when building 11 is full, building 13 has a
\* vacant apartment and an apartment has been vacated
C29_Witness ==
    /\ last.op = "get_building_occupancy"
    /\ last.res = "ok"
    /\ Cardinality(ActiveIn(tenants, 11)) = get_apartment_count(11)
    /\ Cardinality(ActiveIn(tenants, 13)) < get_apartment_count(13)
    /\ \E i \in 1..Len(tenants) : ~IsActiveRow(tenants[i])

====
